---- MODULE Spec2Model ----
(***************************************************************************)
(* Gmail Rechnungs-Manager: the service worker's storage handlers, the     *)
(* content script's attachment scan / status reconciliation / upload       *)
(* button, and the mutation-driven rescan scheduler.                       *)
(*                                                                         *)
(* Strings are sequences of tokens: a token is one character ("a", "A",    *)
(* " ") or the extension ".pdf" / ".PDF" / ".txt" taken as a unit, so that *)
(* toLowerCase, trim, includes('.pdf') and endsWith('.pdf') are computed.  *)
(***************************************************************************)
EXTENDS Integers, Sequences, FiniteSets, TLC

VARIABLES
    apiKey,             \* chrome.storage.local: apiKey
    orgId,              \* chrome.storage.local: orgId
    transferredEmails,  \* chrome.storage.local: transferredEmails (ordered list)
    boringTaxFiles,     \* chrome.storage.local: boringTaxFiles (cached remote names)
    boringTaxLastSync,  \* chrome.storage.local: boringTaxLastSync (0 = '')
    handlers,           \* service worker: the handleMessage calls in flight
    budget,             \* requests the environment may still issue
    loc,                \* mail page: location hash and message containers
    dom,                \* mail page: the attachment elements, in document order
    processed,          \* elements carrying the class grm-processed
    nodes,              \* per element, the injected buttons / badges
    calls,              \* processAttachment calls waiting for a status answer
    scanCount,          \* scans that passed the opened-email test so far
    timers,             \* pending setTimeout callbacks of initObserver
    nextTimer,          \* the id the next setTimeout returns
    scanTimeout,        \* initObserver: scanTimeout (0 = null)
    inboxScanTimeout,   \* initObserver: inboxScanTimeout (0 = null)
    sinceBatch,         \* per class: ms since its last mutation batch (-1: none yet)
    scans,              \* per class: observer scans run since its last batch
    burst,              \* per class: batches since its last observer scan
    uploadedFiles,      \* uploads that answered success, until a removal of their email is requested
    inboxProcessed,     \* chips (elements, indicators) carrying the class grm-inbox-processed
    indicators,         \* per element, the inbox indicators inserted next to it, oldest first
    inboxScans,         \* scanInboxForTransferredEmails calls waiting for an answer
    lastUrl,            \* init: lastUrl, the location the URL poll recorded last
    sends               \* page: the sendMessage promises, one record per call

storeVars == <<apiKey, orgId, transferredEmails, boringTaxFiles, boringTaxLastSync>>
pageVars == <<loc, dom, processed, nodes, calls, scanCount>>
timerVars == <<timers, nextTimer, scanTimeout, inboxScanTimeout, sinceBatch, scans, burst, lastUrl>>
inboxVars == <<inboxProcessed, indicators, inboxScans>>
vars == <<apiKey, orgId, transferredEmails, boringTaxFiles, boringTaxLastSync,
          handlers, budget, loc, dom, processed, nodes, calls, scanCount,
          timers, nextTimer, scanTimeout, inboxScanTimeout, sinceBatch, scans, burst,
          uploadedFiles, inboxProcessed, indicators, inboxScans, lastUrl, sends>>

(***************************************************************************)
(* Bounds                                                                  *)
(***************************************************************************)
MaxHandlers == 2
MaxRequests == 3
\* scans, clicks and outside requests while a mail page is open
MaxEvents == 2

HandlerIds == 1..MaxHandlers

(***************************************************************************)
(* Strings                                                                 *)
(***************************************************************************)
Lower(c) ==
    CASE c = "A" -> "a"
      [] c = "B" -> "b"
      [] c = ".PDF" -> ".pdf"
      [] c = "Invoice_2024" -> "invoice_2024"
      [] OTHER -> c

ToLowerCase(s) == [i \in 1..Len(s) |-> Lower(s[i])]

RECURSIVE TrimStart(_)
TrimStart(s) == IF Len(s) > 0 /\ Head(s) = " " THEN TrimStart(Tail(s)) ELSE s

RECURSIVE TrimEnd(_)
TrimEnd(s) ==
    IF Len(s) > 0 /\ s[Len(s)] = " " THEN TrimEnd(SubSeq(s, 1, Len(s) - 1)) ELSE s

Trim(s) == TrimEnd(TrimStart(s))

LowerCaseOnly(s) == ToLowerCase(s)

\* fileName.toLowerCase().trim()
NormalizeFileName(s) == Trim(ToLowerCase(s))

(***************************************************************************)
(* Values the environment sends                                            *)
(***************************************************************************)
EmailIds == {"E1", "E2"}

FileNames == { <<"a", ".pdf">>, <<"b", ".pdf">> }

\* what the backend's file listing may return (orgFileName || name of each file)
RemoteListings == { <<>>, << <<" ", "A", ".PDF">> >>, << <<"b", ".pdf">>, <<"b", ".pdf">> >> }

Keys == {"", "k"}

TransferredEmail(e, f) == [emailId |-> e, fileName |-> f]

(***************************************************************************)
(* storage (src/src/types/api.ts)                                          *)
(***************************************************************************)
AlwaysConfigured(k, o) == TRUE

\* getSettings: isConfigured
IsConfigured(k, o) == k # "" /\ o # ""

\* findIndex: 1-based position of the first record of emailId, 0 when absent
\* (the code's -1)
FindIndex(list, emailId) ==
    IF \E i \in 1..Len(list) : list[i].emailId = emailId
    THEN CHOOSE i \in 1..Len(list) :
            /\ list[i].emailId = emailId
            /\ \A j \in 1..(i - 1) : list[j].emailId # emailId
    ELSE 0

AddTransferredAppend(list, email) == Append(list, email)

AddTransferredKeep(list, email) ==
    IF FindIndex(list, email.emailId) >= 1 THEN list ELSE Append(list, email)

\* addTransferredEmail: the list written back, from the list read
AddTransferredEmail(list, email) ==
    LET existingIndex == FindIndex(list, email.emailId)
    IN  IF existingIndex >= 1
        THEN [list EXCEPT ![existingIndex] = email]
        ELSE Append(list, email)

\* a removal that writes back the list it read
RemoveNothing(list, emailId) == list

\* a removal that writes an empty list
RemoveEverything(list, emailId) == <<>>

\* removeTransferredEmail: the list written back, from the list read
RemoveTransferredEmail(list, emailId) ==
    SelectSeq(list, LAMBDA e : e.emailId # emailId)

\* getTransferredEmail / isEmailTransferred
HasEmail(list, emailId) == \E i \in 1..Len(list) : list[i].emailId = emailId

\* isFileTransferredByName(...) !== null
IsFileTransferredByName(list, fileName) ==
    \E i \in 1..Len(list) :
        NormalizeFileName(list[i].fileName) = NormalizeFileName(fileName)

\* isFileInBoringTax
IsFileInBoringTax(files, fileName) ==
    \E i \in 1..Len(files) :
        NormalizeFileName(files[i]) = NormalizeFileName(fileName)

RECURSIVE Dedup(_)
\* [...new Set(xs)]: first occurrences, in order
Dedup(xs) ==
    IF xs = <<>> THEN <<>>
    ELSE LET rest == Dedup(SubSeq(xs, 1, Len(xs) - 1))
             last == xs[Len(xs)]
         IN  IF \E i \in 1..Len(rest) : rest[i] = last THEN rest ELSE Append(rest, last)

FileNamesOf(list) == [i \in 1..Len(list) |-> list[i].fileName]

ListedNamesOnly(fileNames, list) == Dedup(fileNames)

\* handleSyncBoringTaxFiles: allFileNames
AllFileNames(fileNames, list) == Dedup(fileNames \o FileNamesOf(list))

(***************************************************************************)
(* content script, pure parts (src/src/content/gmail_content.ts).          *)
(* An attachment element is known by its signals: the text of its first    *)
(* name element, its data-tooltip, title and aria-label attributes and its *)
(* textContent, each a token sequence, <<>> when the signal is absent.     *)
(***************************************************************************)
IsPdfToken(t) == t = ".pdf"

\* s.includes('.pdf')
IncludesPdf(s) == \E i \in 1..Len(s) : IsPdfToken(s[i])

\* s.endsWith('.pdf')
EndsWithPdf(s) == Len(s) > 0 /\ IsPdfToken(s[Len(s)])

\* a classification that compares without lowering the case
IsPdfCaseSensitive(sig) ==
    \/ EndsWithPdf(sig.name)
    \/ IncludesPdf(sig.tooltip)
    \/ IncludesPdf(sig.title)
    \/ IncludesPdf(sig.text)
    \/ IncludesPdf(sig.aria)

\* isPdfAttachment
IsPdfAttachment(sig) ==
    \/ EndsWithPdf(ToLowerCase(sig.name))
    \/ IncludesPdf(ToLowerCase(sig.tooltip))
    \/ IncludesPdf(ToLowerCase(sig.title))
    \/ IncludesPdf(ToLowerCase(sig.text))
    \/ IncludesPdf(ToLowerCase(sig.aria))

\* allText.match(/[\w\-_.]+\.pdf/i): the leftmost run of word characters that
\* holds a '.pdf' (any case) after its first character, up to the last such
\* '.pdf' of the run; <<>> when there is no match
PdfMatch(s) ==
    LET IsWord(i) == s[i] # " "
        Ends(i) == {j \in (i + 1)..Len(s) :
                        /\ Lower(s[j]) = ".pdf"
                        /\ \A k \in i..j : IsWord(k)}
        Starts == {i \in 1..Len(s) : Ends(i) # {}}
    IN  IF Starts = {} THEN <<>>
        ELSE LET i == CHOOSE x \in Starts : \A y \in Starts : x <= y
                 j == CHOOSE x \in Ends(i) : \A y \in Ends(i) : x >= y
             IN  SubSeq(s, i, j)

Placeholder == <<"document", ".pdf">>

\* getAttachmentFileName
GetAttachmentFileName(sig) ==
    IF IncludesPdf(sig.name) THEN Trim(sig.name)
    ELSE IF IncludesPdf(sig.tooltip) THEN Trim(sig.tooltip)
    ELSE IF IncludesPdf(sig.title) THEN Trim(sig.title)
    ELSE IF IncludesPdf(sig.aria) THEN Trim(sig.aria)
    ELSE IF PdfMatch(sig.text) # <<>> THEN PdfMatch(sig.text)
    ELSE Placeholder

\* window.location.hash as tokens: a section ("#inbox"), "/" and ids.
\* msg: what querySelector(MESSAGE_CONTAINER) finds: "none", "id" (an element
\* with data-message-id) or "legacy" (only data-legacy-message-id).
\* detail: an element matching '.adn.ads, .nH.if, .h7' is in the document.
Sections == {"#inbox", "#sent", "#all", "#starred", "#label"}

NoId == "null"

\* hash.match(/#[^/]+\/([^/]+)/)
UrlMatches(hash) ==
    Len(hash) >= 3 /\ hash[1] # "/" /\ hash[2] = "/" /\ hash[3] # "/"

\* extractEmailId: NoId is the null getAttribute returns for an element that
\* has only data-legacy-message-id
ExtractEmailId(l) ==
    IF UrlMatches(l.hash) THEN l.hash[3]
    ELSE IF l.msg = "id" THEN "M1"
    ELSE IF l.msg = "legacy" THEN NoId
    ELSE "gmail-generated"

\* isInOpenedEmail
IsInOpenedEmail(l) ==
    /\ \E i \in 1..Len(l.hash) : l.hash[i] = "/"
    /\ \/ UrlMatches(l.hash)
       \/ Len(l.hash) >= 2 /\ l.hash[1] \in Sections /\ l.hash[2] = "/"
    /\ l.detail

Sig(name, tooltip, title, text, aria) ==
    [name |-> name, tooltip |-> tooltip, title |-> title, text |-> text, aria |-> aria]

\* an element scanForAttachments reaches under a '.aQH' container: its
\* signals, the element of the list it lies inside (0: none) and whether
\* handleUpload finds a download link for it
Element(sig, parent, link) == [sig |-> sig, parent |-> parent, link |-> link]

NamedA == Sig(<<"a", ".pdf">>, <<>>, <<>>, <<"a", ".pdf", " ", "k">>, <<>>)
TooltipA == Sig(<<>>, <<"a", ".pdf">>, <<>>, <<>>, <<>>)
TooltipB == Sig(<<>>, <<" ", "b", ".pdf">>, <<>>, <<>>, <<>>)
NotPdf == Sig(<<"a", ".txt">>, <<>>, <<>>, <<"a", ".txt">>, <<>>)

\* the documents the content script is loaded into, elements in document order
Documents ==
    { << Element(TooltipA, 0, TRUE) >>,
      << Element(NamedA, 0, TRUE), Element(TooltipA, 0, TRUE) >>,
      << Element(NamedA, 0, TRUE), Element(TooltipA, 1, TRUE) >>,
      << Element(NotPdf, 0, TRUE), Element(TooltipB, 0, FALSE) >> }

Locations ==
    { [hash |-> <<"#inbox">>, detail |-> FALSE, msg |-> "none"],
      [hash |-> <<"#inbox", "/", "E1">>, detail |-> TRUE, msg |-> "id"],
      [hash |-> <<"#inbox", "/">>, detail |-> TRUE, msg |-> "legacy"] }

(***************************************************************************)
(* service worker (src/unnamed/part_001): one record per handleMessage     *)
(* call that touches the stored lists. pc is the await the call is at.     *)
(***************************************************************************)
NoHandler ==
    [op |-> "none", pc |-> "free", emailId |-> "", fileName |-> <<>>,
     origin |-> 0, snap |-> <<>>, names |-> <<>>, outcome |-> "none",
     success |-> FALSE, wrote |-> FALSE, upsert |-> "none"]

FreeIds == {h \in HandlerIds : handlers[h].pc = "free"}

\* the slot a new call takes: the lowest free one
NextFree == CHOOSE h \in FreeIds : \A g \in FreeIds : h <= g

FirstPc(op) == IF op \in {"UPLOAD_PDF", "SYNC_BORING_TAX_FILES"} THEN "settings" ELSE "read"

NewHandler(op, emailId, fileName, origin) ==
    [NoHandler EXCEPT !.op = op, !.pc = FirstPc(op), !.emailId = emailId,
                      !.fileName = fileName, !.origin = origin]

\* the handler has returned: only its answer is left of the call
Returned(rec, success, wrote) ==
    [NoHandler EXCEPT !.op = rec.op, !.pc = "reply", !.origin = rec.origin,
                      !.outcome = rec.outcome, !.success = success, !.wrote = wrote]

Failed(rec) == Returned(rec, FALSE, FALSE)

\* DEFAULT_STORAGE, no call in flight
InitStore ==
    /\ apiKey = ""
    /\ orgId = ""
    /\ transferredEmails = <<>>
    /\ boringTaxFiles = <<>>
    /\ boringTaxLastSync = 0
    /\ handlers = [h \in HandlerIds |-> NoHandler]
    /\ uploadedFiles = {}

\* the content script has just been loaded into document d at location l
InitPage(l, d) ==
    /\ loc = l
    /\ dom = d
    /\ processed = {}
    /\ nodes = [e \in 1..Len(d) |-> <<>>]
    /\ calls = <<>>
    /\ scanCount = 0
    /\ inboxProcessed = {}
    /\ indicators = [e \in 1..Len(d) |-> <<>>]
    /\ inboxScans = <<>>

NoPage == InitPage([hash |-> <<>>, detail |-> FALSE, msg |-> "none"], <<>>)

Classes == {"email", "inbox"}

\* initObserver has just run: both handles null, no timer set; init has
\* recorded the location in lastUrl
InitObserver ==
    /\ timers = {}
    /\ nextTimer = 1
    /\ scanTimeout = 0
    /\ inboxScanTimeout = 0
    /\ sinceBatch = [c \in Classes |-> -1]
    /\ scans = [c \in Classes |-> 0]
    /\ burst = [c \in Classes |-> 0]
    /\ lastUrl = loc.hash
    /\ sends = <<>>

Init == InitStore /\ budget = MaxRequests /\ NoPage /\ InitObserver

\* handleSaveSettings: storage.saveSettings writes both keys; the connection
\* test that follows changes nothing stored. The options page, the only
\* sender, refuses to send an empty apiKey or orgId.
SaveSettings(k, o) ==
    /\ <<apiKey, orgId>> # <<k, o>>
    /\ apiKey' = k
    /\ orgId' = o
    /\ UNCHANGED <<transferredEmails, boringTaxFiles, boringTaxLastSync, handlers, budget,
                   uploadedFiles, inboxVars>>
    /\ UNCHANGED <<pageVars, timerVars, sends>>

\* chrome.runtime.onMessage listener: a message of the options page / popup /
\* another tab arrives and handleMessage dispatches it
Receive(op, emailId, fileName) ==
    /\ budget > 0
    /\ FreeIds # {}
    /\ budget' = budget - 1
    /\ handlers' = [handlers EXCEPT ![NextFree] = NewHandler(op, emailId, fileName, 0)]
    /\ uploadedFiles' = IF op = "REMOVE_TRANSFERRED"
                        THEN {u \in uploadedFiles : u.emailId # emailId}
                        ELSE uploadedFiles
    /\ UNCHANGED inboxVars
    /\ UNCHANGED storeVars
    /\ UNCHANGED <<pageVars, timerVars, sends>>

\* storage.getSettings() answers (handleUploadPdf, handleSyncBoringTaxFiles);
\* storageOk = FALSE: chrome.storage.local.get fails and the handler's catch
\* answers {success:false}
ReadSettings(h, storageOk) ==
    /\ handlers[h].pc = "settings"
    /\ handlers' = [handlers EXCEPT ![h] =
            IF storageOk /\ IsConfigured(apiKey, orgId)
            THEN [@ EXCEPT !.pc = "backend"]
            ELSE Failed(@)]
    /\ UNCHANGED <<storeVars, uploadedFiles, inboxVars, budget>>
    /\ UNCHANGED <<pageVars, timerVars, sends>>

UploadResultIgnored(outcome) == TRUE

\* handleUploadPdf goes on to mark the transfer: the backend answered 2xx with a
\* non-empty entity list ("ok"); "empty" is result.length === 0, "error" a
\* non-2xx answer or a transport error thrown by uploadFile
UploadResultOk(outcome) == outcome = "ok"

\* the backend answers apiClient.uploadFileFromBase64
BackendUpload(h, outcome) ==
    /\ handlers[h].pc = "backend"
    /\ handlers[h].op = "UPLOAD_PDF"
    /\ handlers' = [handlers EXCEPT ![h] =
            IF UploadResultOk(outcome)
            THEN [@ EXCEPT !.pc = "read", !.outcome = outcome]
            ELSE Failed([@ EXCEPT !.outcome = outcome])]
    /\ UNCHANGED <<storeVars, uploadedFiles, inboxVars, budget>>
    /\ UNCHANGED <<pageVars, timerVars, sends>>

\* what a fetch of a listing endpoint may come to: it rejects ("throws"), the
\* status is not ok ("notOk"), the status is ok and the body is not JSON
\* ("unparsable"), or the status is ok and the body lists files ("ok")
ListResponses ==
    {[kind |-> k, files |-> <<>>] : k \in {"throws", "notOk", "unparsable"}}
        \cup {[kind |-> "ok", files |-> l] : l \in RemoteListings}

\* getFiles for the answers of '/file/list' and '/files'. The catch covers
\* the awaited fetches; response.json() is returned without await, so its
\* rejection is the rejection of getFiles.
GetFiles(primary, alternate) ==
    LET answer == IF primary.kind = "notOk" THEN alternate ELSE primary
    IN  CASE primary.kind = "throws" ->
                [raised |-> FALSE, listed |-> FALSE, files |-> <<>>]
          [] answer.kind \in {"throws", "notOk"} ->
                [raised |-> FALSE, listed |-> FALSE, files |-> <<>>]
          [] answer.kind = "unparsable" ->
                [raised |-> TRUE, listed |-> FALSE, files |-> <<>>]
          [] OTHER -> [raised |-> FALSE, listed |-> TRUE, files |-> answer.files]

\* apiClient.getFileNames settles; a rejection is caught by
\* handleSyncBoringTaxFiles, which answers {success:false, error}. '/files'
\* is fetched only after a '/file/list' answer that is not ok.
BackendList(h, primary, alternate) ==
    /\ handlers[h].pc = "backend"
    /\ handlers[h].op = "SYNC_BORING_TAX_FILES"
    /\ primary.kind # "notOk" => alternate = primary
    /\ handlers' = [handlers EXCEPT ![h] =
            IF GetFiles(primary, alternate).raised
            THEN Failed(@)
            ELSE [@ EXCEPT !.pc = "read", !.names = GetFiles(primary, alternate).files,
                           !.outcome = IF GetFiles(primary, alternate).listed
                                       THEN "listed" ELSE "unlisted"]]
    /\ UNCHANGED <<storeVars, uploadedFiles, inboxVars, budget>>
    /\ UNCHANGED <<pageVars, timerVars, sends>>

\* storage.getAll() answers inside addTransferredEmail / removeTransferredEmail /
\* getTransferredEmails: the handler now holds the full list it read
ReadHistory(h, storageOk) ==
    /\ handlers[h].pc = "read"
    /\ handlers' = [handlers EXCEPT ![h] =
            IF storageOk
            THEN [@ EXCEPT !.pc = "write", !.snap = transferredEmails]
            ELSE Failed(@)]
    /\ UNCHANGED <<storeVars, uploadedFiles, inboxVars, budget>>
    /\ UNCHANGED <<pageVars, timerVars, sends>>

WrittenOnStored(rec) ==
    CASE rec.op \in {"UPLOAD_PDF", "MARK_TRANSFERRED"} ->
            AddTransferredEmail(transferredEmails, TransferredEmail(rec.emailId, rec.fileName))
      [] rec.op = "REMOVE_TRANSFERRED" ->
            RemoveTransferredEmail(transferredEmails, rec.emailId)
      [] OTHER -> transferredEmails

\* the list (or cache) chrome.storage.local.set is given by handler record rec
WrittenList(rec) ==
    CASE rec.op \in {"UPLOAD_PDF", "MARK_TRANSFERRED"} ->
            AddTransferredEmail(rec.snap, TransferredEmail(rec.emailId, rec.fileName))
      [] rec.op = "REMOVE_TRANSFERRED" ->
            RemoveTransferredEmail(rec.snap, rec.emailId)
      [] OTHER -> rec.snap

\* what addTransferredEmail did with the list it read (kept with the answer):
\* "lost" when the write drops a stored record of another emailId that was not
\* in the list read, "stale" when the stored list changed otherwise between
\* the read and the write, else
\* "new" (push), "same" or "renamed" (entry of the emailId overwritten)
UpsertKind(rec) ==
    LET idx == FindIndex(rec.snap, rec.emailId)
    IN  CASE rec.op \notin {"UPLOAD_PDF", "MARK_TRANSFERRED"} -> "none"
          [] \E i \in 1..Len(transferredEmails) :
                /\ transferredEmails[i].emailId # rec.emailId
                /\ ~HasEmail(rec.snap, transferredEmails[i].emailId) -> "lost"
          [] rec.snap # transferredEmails -> "stale"
          [] idx = 0 -> "new"
          [] rec.snap[idx].fileName = rec.fileName -> "same"
          [] OTHER -> "renamed"

\* chrome.storage.local.set completes: the full list is replaced
WriteHistory(h) ==
    /\ handlers[h].pc = "write"
    /\ handlers[h].op # "SYNC_BORING_TAX_FILES"
    /\ transferredEmails' = WrittenList(handlers[h])
    /\ handlers' = [handlers EXCEPT ![h] =
            [Returned(@, TRUE, TRUE) EXCEPT !.upsert = UpsertKind(handlers[h])]]
    /\ uploadedFiles' = IF handlers[h].op = "UPLOAD_PDF"
                        THEN uploadedFiles
                                \cup {TransferredEmail(handlers[h].emailId, handlers[h].fileName)}
                        ELSE uploadedFiles
    /\ UNCHANGED inboxVars
    /\ UNCHANGED <<apiKey, orgId, boringTaxFiles, boringTaxLastSync, budget>>
    /\ UNCHANGED <<pageVars, timerVars, sends>>

\* storage.saveBoringTaxFiles completes
WriteCache(h) ==
    /\ handlers[h].pc = "write"
    /\ handlers[h].op = "SYNC_BORING_TAX_FILES"
    /\ boringTaxFiles' = AllFileNames(handlers[h].names, handlers[h].snap)
    /\ boringTaxLastSync' = boringTaxLastSync + 1
    /\ handlers' = [handlers EXCEPT ![h] = Returned(@, TRUE, FALSE)]
    /\ UNCHANGED <<apiKey, orgId, transferredEmails, budget, uploadedFiles, inboxVars>>
    /\ UNCHANGED <<pageVars, timerVars, sends>>

\* sendResponse reaches a sender outside the mail page
ReplyOutside(h) ==
    /\ handlers[h].pc = "reply"
    /\ handlers[h].origin = 0
    /\ handlers' = [handlers EXCEPT ![h] = NoHandler]
    /\ UNCHANGED <<storeVars, uploadedFiles, inboxVars, budget>>
    /\ UNCHANGED <<pageVars, timerVars, sends>>

StoreStep ==
    \E h \in HandlerIds :
        \/ \E ok \in BOOLEAN : ReadSettings(h, ok)
        \/ \E outcome \in {"ok", "empty", "error"} : BackendUpload(h, outcome)
        \/ \E ok \in BOOLEAN : ReadHistory(h, ok)
        \/ WriteHistory(h)

SyncStep ==
    \E h \in HandlerIds :
        \/ \E primary \in ListResponses, alternate \in ListResponses :
                BackendList(h, primary, alternate)
        \/ WriteCache(h)

StoreRequest ==
    \/ \E k \in Keys \ {""}, o \in Keys \ {""} : SaveSettings(k, o)
    \/ \E e \in EmailIds, f \in FileNames : Receive("UPLOAD_PDF", e, f)
    \/ \E e \in EmailIds, f \in FileNames : Receive("MARK_TRANSFERRED", e, f)
    \/ \E e \in EmailIds : Receive("REMOVE_TRANSFERRED", e, <<>>)

SyncRequest == Receive("SYNC_BORING_TAX_FILES", "", <<>>)

StoreNext ==
    \/ StoreRequest
    \/ StoreStep
    \/ \E h \in HandlerIds : ReplyOutside(h)

SpecStore == Init /\ [][StoreNext]_vars

\* the handlers that call the backend: upload and sync
RemoteNext ==
    \/ \E k \in Keys \ {""}, o \in Keys \ {""} : SaveSettings(k, o)
    \/ \E e \in EmailIds, f \in FileNames : Receive("UPLOAD_PDF", e, f)
    \/ SyncRequest
    \/ StoreStep
    \/ SyncStep
    \/ \E h \in HandlerIds : ReplyOutside(h)

SpecRemote == Init /\ [][RemoteNext]_vars

(***************************************************************************)
(* content script: scan, status reconciliation, upload button              *)
(***************************************************************************)
Elems == 1..Len(dom)

RemoveAt(seq, i) == SubSeq(seq, 1, i - 1) \o SubSeq(seq, i + 1, Len(seq))

\* createUploadButton: data-filename, data-email-id, the closure's emailId.
\* failed / overlapped / uploaded record how the node came about.
Button(fileName, emailId, failed, overlapped) ==
    [type |-> "button", fileName |-> fileName, emailId |-> emailId,
     loading |-> FALSE, label |-> "send", title |-> "send", revert |-> 0,
     up |-> "idle",
     failed |-> failed, overlapped |-> overlapped, uploaded |-> FALSE]

\* createStatusBadge: no data attributes
Badge(failed, overlapped, uploaded) ==
    [type |-> "badge", fileName |-> <<>>, emailId |-> "",
     loading |-> FALSE, label |-> "done", title |-> "done", revert |-> 0,
     up |-> "idle",
     failed |-> failed, overlapped |-> overlapped, uploaded |-> uploaded]

RECURSIVE IsWithin(_, _)
\* element d is e or lies inside e
IsWithin(d, e) ==
    \/ d = e
    \/ dom[d].parent # 0 /\ IsWithin(dom[d].parent, e)

\* attachment.querySelector('.grm-upload-btn') || ...('.grm-status-badge')
ContainsAffordance(e) == \E d \in Elems : IsWithin(d, e) /\ Len(nodes[d]) > 0

\* some .grm-upload-btn of the document has data-filename === fileName
ButtonExistsFor(fileName) ==
    \E d \in Elems : \E k \in 1..Len(nodes[d]) :
        nodes[d][k].type = "button" /\ nodes[d][k].fileName = fileName

\* the synchronous part of processAttachment(e), up to its first await:
\* "skip" (return, element untouched), "mark" (grm-processed added, return),
\* "noid" (marked, no email id, return), "start" (marked, first status
\* message sent)
ProcessOutcome(e) ==
    IF e \in processed THEN "skip"
    ELSE IF ContainsAffordance(e) THEN "mark"
    ELSE IF ~IsPdfAttachment(dom[e].sig) THEN "skip"
    ELSE IF ButtonExistsFor(GetAttachmentFileName(dom[e].sig)) THEN "mark"
    ELSE IF ExtractEmailId(loc) = NoId THEN "noid"
    ELSE "start"

MarksOnlySkipped(outcome) == outcome = "mark"

MarksAfterAwait(outcome) == outcome \in {"mark", "noid"}

\* the outcomes on which processAttachment has added grm-processed before
\* its first await
MarksProcessed(outcome) == outcome \in {"mark", "noid", "start"}

NewCall(e) ==
    [elem |-> e, pc |-> "byName", fileName |-> GetAttachmentFileName(dom[e].sig),
     emailId |-> ExtractEmailId(loc), nameHit |-> FALSE,
     byName |-> "none", byEmail |-> "none", failed |-> FALSE, overlapped |-> FALSE]

RECURSIVE NewCalls(_)
\* the calls a scan starts, for the elements from e on, in document order
NewCalls(e) ==
    IF e > Len(dom) THEN <<>>
    ELSE (IF ProcessOutcome(e) = "start" THEN <<NewCall(e)>> ELSE <<>>) \o NewCalls(e + 1)

\* a scan without the opened-email test
ScanAnyView ==
    /\ processed' = processed \cup {e \in Elems : MarksProcessed(ProcessOutcome(e))}
    /\ calls' = [i \in 1..Len(calls) |-> [calls[i] EXCEPT !.overlapped = TRUE]]
                    \o NewCalls(1)
    /\ scanCount' = scanCount + 1
    /\ UNCHANGED <<storeVars, uploadedFiles, inboxVars, handlers, loc, dom, nodes>>

\* scanForAttachments, with the synchronous part of every processAttachment
\* it calls (no await lies between them)
Scan ==
    /\ IF IsInOpenedEmail(loc)
       THEN /\ processed' = processed \cup {e \in Elems : MarksProcessed(ProcessOutcome(e))}
            /\ calls' = [i \in 1..Len(calls) |-> [calls[i] EXCEPT !.overlapped = TRUE]]
                            \o NewCalls(1)
            /\ scanCount' = scanCount + 1
       ELSE UNCHANGED <<processed, calls, scanCount>>
    /\ UNCHANGED <<storeVars, uploadedFiles, inboxVars, handlers, loc, dom, nodes>>

\* a scan started by init's timeouts, the URL poll or the 5 s interval
ScanForAttachments ==
    /\ budget > 0
    /\ budget' = budget - 1
    /\ Scan
    /\ UNCHANGED <<timerVars, sends>>

\* handleCheckStatusByFilename, first await: storage.isFileTransferredByName.
\* storageOk = FALSE: the read fails, handleMessage rejects and the listener
\* answers {success:false, error}
CheckByNameHistory(i, storageOk) ==
    /\ calls[i].pc = "byName"
    /\ calls' = [calls EXCEPT ![i] =
            IF storageOk
            THEN [@ EXCEPT !.pc = "byNameMid",
                           !.nameHit = IsFileTransferredByName(transferredEmails, calls[i].fileName)]
            ELSE [@ EXCEPT !.pc = "byNameDone", !.byName = "error", !.failed = TRUE]]
    /\ UNCHANGED <<timerVars, sends, storeVars, uploadedFiles, inboxVars, handlers, budget, loc, dom, processed, nodes, scanCount>>

\* handleCheckStatusByFilename, second await: storage.isFileInBoringTax, and
\* the answer's isInBoringTax
CheckByNameCache(i) ==
    /\ calls[i].pc = "byNameMid"
    /\ calls' = [calls EXCEPT ![i] =
            [@ EXCEPT !.pc = "byNameDone",
                      !.byName = IF \/ IsFileInBoringTax(boringTaxFiles, calls[i].fileName)
                                    \/ calls[i].nameHit
                                 THEN "true" ELSE "false"]]
    /\ UNCHANGED <<timerVars, sends, storeVars, uploadedFiles, inboxVars, handlers, budget, loc, dom, processed, nodes, scanCount>>

\* processAttachment resumes with filenameStatus and sends CHECK_STATUS
ReceiveByName(i) ==
    /\ calls[i].pc = "byNameDone"
    /\ calls' = [calls EXCEPT ![i] = [@ EXCEPT !.pc = "byEmail"]]
    /\ UNCHANGED <<timerVars, sends, storeVars, uploadedFiles, inboxVars, handlers, budget, loc, dom, processed, nodes, scanCount>>

\* handleCheckStatus: storage.getTransferredEmail
CheckByEmail(i, storageOk) ==
    /\ calls[i].pc = "byEmail"
    /\ calls' = [calls EXCEPT ![i] =
            IF storageOk
            THEN [@ EXCEPT !.pc = "byEmailDone",
                           !.byEmail = IF HasEmail(transferredEmails, calls[i].emailId)
                                       THEN "true" ELSE "false"]
            ELSE [@ EXCEPT !.pc = "byEmailDone", !.byEmail = "error", !.failed = TRUE]]
    /\ UNCHANGED <<timerVars, sends, storeVars, uploadedFiles, inboxVars, handlers, budget, loc, dom, processed, nodes, scanCount>>

BadgeOnlyIfBoth(call) == call.byName = "true" /\ call.byEmail = "true"

\* isAlreadyInBoringTax = filenameStatus.isInBoringTax || emailStatus.isTransferred
\* (undefined, hence falsy, in an error answer)
IsAlreadyInBoringTax(call) == call.byName = "true" \/ call.byEmail = "true"

\* insertElement: the node is appended inside the attachment element (or, when
\* it measures zero size, moved next to it: one node either way)
InsertElement(e, node) == [nodes EXCEPT ![e] = Append(@, node)]

\* processAttachment resumes with emailStatus and inserts badge or button
Render(i) ==
    /\ calls[i].pc = "byEmailDone"
    /\ nodes' = InsertElement(calls[i].elem,
            IF IsAlreadyInBoringTax(calls[i])
            THEN Badge(calls[i].failed, calls[i].overlapped, FALSE)
            ELSE Button(calls[i].fileName, calls[i].emailId,
                        calls[i].failed, calls[i].overlapped))
    /\ calls' = RemoveAt(calls, i)
    /\ UNCHANGED <<timerVars, sends, storeVars, uploadedFiles, inboxVars, handlers, budget, loc, dom, processed, scanCount>>

\* sendMessage rejects (runtime id gone, lastError, port closed before an
\* answer): the catch of processAttachment inserts the upload button
StatusSendFails(i) ==
    /\ calls[i].pc \in {"byName", "byNameMid", "byEmail"}
    /\ nodes' = InsertElement(calls[i].elem,
            Button(calls[i].fileName, calls[i].emailId, TRUE, calls[i].overlapped))
    /\ calls' = RemoveAt(calls, i)
    /\ UNCHANGED <<timerVars, sends, storeVars, uploadedFiles, inboxVars, handlers, budget, loc, dom, processed, scanCount>>

\* handleUpload's catch, ordinary error: LOADING removed, 'Fehler' shown,
\* setTimeout(reset, 3000) scheduled
ErrorState(node, message) ==
    [node EXCEPT !.loading = FALSE, !.label = "error", !.title = message,
                 !.up = "idle", !.revert = @ + 1]

\* handleUpload's catch, message of an invalidated extension context:
\* LOADING removed, 'Neu laden' shown, no timer
ReloadState(node) ==
    [node EXCEPT !.loading = FALSE, !.label = "reload", !.title = "reload",
                 !.up = "idle"]

\* a handleUpload that takes the download link for granted
ClickAssumesLink(e, k) ==
    /\ budget > 0
    /\ budget' = budget - 1
    /\ nodes[e][k].type = "button"
    /\ ~nodes[e][k].loading
    /\ nodes' = [nodes EXCEPT ![e][k] =
            [@ EXCEPT !.loading = TRUE, !.label = "sending", !.up = "downloading"]]
    /\ UNCHANGED <<timerVars, sends, storeVars, uploadedFiles, inboxVars, handlers, loc, dom, processed, calls, scanCount>>

\* a handleUpload without the test of the loading marker
ClickWhileLoading(e, k) ==
    /\ budget > 0
    /\ budget' = budget - 1
    /\ nodes[e][k].type = "button"
    /\ nodes' = [nodes EXCEPT ![e][k] =
            IF dom[e].link
            THEN [@ EXCEPT !.loading = TRUE, !.label = "sending", !.up = "downloading"]
            ELSE ErrorState([@ EXCEPT !.loading = TRUE], "manual")]
    /\ UNCHANGED <<timerVars, sends, storeVars, uploadedFiles, inboxVars, handlers, loc, dom, processed, calls, scanCount>>

\* click (or Enter / Space) on the k-th node of element e: handleUpload up to
\* its first await. Without a download link it throws before any await.
Click(e, k) ==
    /\ budget > 0
    /\ budget' = budget - 1
    /\ nodes[e][k].type = "button"
    /\ ~nodes[e][k].loading
    /\ nodes' = [nodes EXCEPT ![e][k] =
            IF dom[e].link
            THEN [@ EXCEPT !.loading = TRUE, !.label = "sending", !.up = "downloading"]
            ELSE ErrorState([@ EXCEPT !.loading = TRUE], "manual")]
    /\ UNCHANGED <<timerVars, sends, storeVars, uploadedFiles, inboxVars, handlers, loc, dom, processed, calls, scanCount>>

\* downloadPdfAsBase64 settles. "ok": UPLOAD_PDF is sent and handleMessage
\* dispatches it; "failed": the fetch failed; "invalidated": sendMessage
\* rejects with the reload-the-page error
DownloadSettles(e, k, result) ==
    /\ nodes[e][k].up = "downloading"
    /\ result = "ok" => FreeIds # {}
    /\ nodes' = [nodes EXCEPT ![e][k] =
            CASE result = "ok" -> [@ EXCEPT !.up = "sent"]
              [] result = "failed" -> ErrorState(@, "download")
              [] OTHER -> ReloadState(@)]
    /\ handlers' = IF result = "ok"
                   THEN [handlers EXCEPT ![NextFree] =
                            NewHandler("UPLOAD_PDF", nodes[e][k].emailId,
                                       GetAttachmentFileName(dom[e].sig), e)]
                   ELSE handlers
    /\ UNCHANGED <<timerVars, sends, storeVars, uploadedFiles, inboxVars, budget, loc, dom, processed, calls, scanCount>>

AppendBadge(bs, k) == Append(bs, Badge(bs[k].failed, bs[k].overlapped, TRUE))

\* replaceButtonWithBadge: button.replaceWith(badge), on the node list bs of
\* the element
ReplaceButtonWithBadge(bs, k) ==
    [bs EXCEPT ![k] = Badge(bs[k].failed, bs[k].overlapped, TRUE)]

\* the node of element e whose upload message is in flight
SentNode(e) == CHOOSE k \in 1..Len(nodes[e]) : nodes[e][k].up = "sent"

\* a handleUpload that replaces the button whatever the response says
UploadAnsweredAsSuccess(h) ==
    /\ handlers[h].pc = "reply"
    /\ handlers[h].origin # 0
    /\ nodes' = [nodes EXCEPT ![handlers[h].origin] =
                    ReplaceButtonWithBadge(@, SentNode(handlers[h].origin))]
    /\ handlers' = [handlers EXCEPT ![h] = NoHandler]
    /\ UNCHANGED <<timerVars, sends, storeVars, uploadedFiles, inboxVars, budget, loc, dom, processed, calls, scanCount>>

\* handleUpload resumes with the UploadResponse of handler h
UploadAnswered(h) ==
    /\ handlers[h].pc = "reply"
    /\ handlers[h].origin # 0
    /\ LET e == handlers[h].origin
           k == SentNode(e)
       IN  nodes' = [nodes EXCEPT ![e] =
                IF handlers[h].success
                THEN ReplaceButtonWithBadge(@, k)
                ELSE [@ EXCEPT ![k] = ErrorState(@, "upload")]]
    /\ handlers' = [handlers EXCEPT ![h] = NoHandler]
    /\ UNCHANGED <<timerVars, sends, storeVars, uploadedFiles, inboxVars, budget, loc, dom, processed, calls, scanCount>>

\* a reset timer that starts the upload again
RevertRetries(e, k) ==
    /\ nodes[e][k].revert > 0
    /\ nodes' = [nodes EXCEPT ![e][k] =
            [@ EXCEPT !.revert = @ - 1, !.loading = TRUE, !.label = "sending",
                      !.up = "downloading"]]
    /\ UNCHANGED <<timerVars, sends, storeVars, uploadedFiles, inboxVars, handlers, budget, loc, dom, processed, calls, scanCount>>

\* the 3-second timer of an error state fires: label and title are reset
RevertFires(e, k) ==
    /\ nodes[e][k].revert > 0
    /\ nodes' = [nodes EXCEPT ![e][k] =
            [@ EXCEPT !.revert = @ - 1, !.label = "send", !.title = "send"]]
    /\ UNCHANGED <<timerVars, sends, storeVars, uploadedFiles, inboxVars, handlers, budget, loc, dom, processed, calls, scanCount>>

StatusStep ==
    \E i \in 1..Len(calls) :
        \/ \E ok \in BOOLEAN : CheckByNameHistory(i, ok)
        \/ CheckByNameCache(i)
        \/ ReceiveByName(i)
        \/ \E ok \in BOOLEAN : CheckByEmail(i, ok)
        \/ Render(i)
        \/ StatusSendFails(i)

UploadStep ==
    \/ \E e \in Elems : \E k \in 1..Len(nodes[e]) :
            \/ Click(e, k)
            \/ \E r \in {"ok", "failed", "invalidated"} : DownloadSettles(e, k, r)
            \/ RevertFires(e, k)
    \/ \E h \in HandlerIds : UploadAnswered(h)

\* what reaches the service worker from outside the mail page while it is open
PageRequest ==
    \/ \E k \in Keys \ {""}, o \in Keys \ {""} : SaveSettings(k, o)
    \/ \E e \in EmailIds, f \in FileNames : Receive("MARK_TRANSFERRED", e, f)
    \/ \E e \in EmailIds : Receive("REMOVE_TRANSFERRED", e, <<>>)
    \/ SyncRequest

PageInit ==
    /\ InitStore
    /\ budget = MaxEvents
    /\ \E l \in Locations, d \in Documents : InitPage(l, d)
    /\ InitObserver

\* scanning and status reconciliation while the stored lists change
ScanNext ==
    \/ ScanForAttachments
    \/ StatusStep
    \/ PageRequest
    \/ \E h \in HandlerIds :
        \/ \E ok \in BOOLEAN : ReadSettings(h, ok)
        \/ \E ok \in BOOLEAN : ReadHistory(h, ok)
        \/ WriteHistory(h)
        \/ ReplyOutside(h)
    \/ SyncStep

SpecScan == PageInit /\ [][ScanNext]_vars

\* scanning and the upload button
UploadNext ==
    \/ ScanForAttachments
    \/ StatusStep
    \/ UploadStep
    \/ \E k \in Keys \ {""}, o \in Keys \ {""} : SaveSettings(k, o)
    \/ \E e \in EmailIds, f \in FileNames : Receive("MARK_TRANSFERRED", e, f)
    \/ StoreStep
    \/ \E h \in HandlerIds : ReplyOutside(h)

SpecUpload == PageInit /\ [][UploadNext]_vars

\* user events of one page session in SpecButton: the scan and the clicks
MaxGestures == 3

ButtonInit ==
    /\ InitStore
    /\ budget = MaxGestures
    /\ \E l \in Locations, d \in Documents : InitPage(l, d)
    /\ InitObserver

\* the life of the upload buttons: repeated clicks, failures, reverts
ButtonNext ==
    \/ ScanForAttachments
    \/ StatusStep
    \/ UploadStep
    \/ \E k \in Keys \ {""}, o \in Keys \ {""} : SaveSettings(k, o)
    \/ StoreStep

SpecButton == ButtonInit /\ [][ButtonNext]_vars

\* the opened message E1 with one PDF attachment: its affordance under scans,
\* uploads, syncs and changes of the stored history
AffordanceInit ==
    /\ InitStore
    /\ budget = MaxGestures
    /\ InitPage([hash |-> <<"#inbox", "/", "E1">>, detail |-> TRUE, msg |-> "id"],
                << Element(TooltipA, 0, TRUE) >>)
    /\ InitObserver

AffordanceNext ==
    \/ ScanForAttachments
    \/ StatusStep
    \/ UploadStep
    \/ \E k \in Keys \ {""}, o \in Keys \ {""} : SaveSettings(k, o)
    \/ \E e \in EmailIds, f \in FileNames : Receive("MARK_TRANSFERRED", e, f)
    \/ \E e \in EmailIds : Receive("REMOVE_TRANSFERRED", e, <<>>)
    \/ StoreStep
    \/ \E h \in HandlerIds : ReplyOutside(h)

SpecAffordance == AffordanceInit /\ [][AffordanceNext]_vars

\* requests and scans of one page session in SpecLifecycle: the page shows
\* the opened message E1 with one PDF attachment
MaxWrites == 2

LifecycleInit ==
    /\ InitStore
    /\ budget = MaxWrites
    /\ InitPage([hash |-> <<"#inbox", "/", "E1">>, detail |-> TRUE, msg |-> "id"],
                << Element(TooltipA, 0, TRUE) >>)
    /\ InitObserver

\* every message that reaches the stored lists, next to the scans of a page
LifecycleNext ==
    \/ ScanForAttachments
    \/ StatusStep
    \/ StoreRequest
    \/ SyncRequest
    \/ StoreStep
    \/ SyncStep
    \/ \E h \in HandlerIds : ReplyOutside(h)

SpecLifecycle == LifecycleInit /\ [][LifecycleNext]_vars

\* what an attribute (data-tooltip, title, aria-label) may hold
AttributeTexts ==
    { <<>>, <<"Invoice_2024", ".pdf">>, <<"A", ".PDF">>, <<"a", ".txt">> }

\* the text of the first name element: absent, a PDF name, one followed by
\* white space, one in capitals
NameTexts == { <<>>, <<"b", ".pdf">>, <<"b", ".pdf", " ">>, <<"B", ".PDF">> }

\* what the element's textContent holds after the text of its name element
RestTexts == { <<>>, <<" ", "k">>, <<" ", "a", ".pdf">> }

\* the signals of one element: the name element is a descendant, so its text
\* is part of the element's textContent
Signals ==
    { Sig(n, tt, ti, n \o r, ar) :
        n \in NameTexts, tt \in AttributeTexts, ti \in AttributeTexts,
        r \in RestTexts, ar \in AttributeTexts }

CapitalA == Sig(<<>>, <<"A", ".PDF">>, <<>>, <<>>, <<>>)
CapitalB == Sig(<<>>, <<"B", ".PDF">>, <<>>, <<>>, <<>>)

\* one attachment with any of the signals, or two attachments named in capitals
SignalDocuments ==
    { << Element(sig, 0, TRUE) >> : sig \in Signals }
        \cup { << Element(CapitalA, 0, TRUE), Element(CapitalB, 0, TRUE) >> }

SignalsInit ==
    /\ InitStore
    /\ budget = MaxEvents
    /\ \E l \in Locations, d \in SignalDocuments : InitPage(l, d)
    /\ InitObserver

\* classification and file-name extraction as the scan applies them
SignalsNext ==
    \/ ScanForAttachments
    \/ StatusStep

SpecSignals == SignalsInit /\ [][SignalsNext]_vars

(***************************************************************************)
(* service worker, onMessage listener and handleMessage for every message  *)
(* type (src/unnamed/part_001 21-91). The handlers without a try/catch of   *)
(* their own reject when a storage read fails; the listener's catch then   *)
(* answers. A chrome.storage callback that fails is called with no result. *)
(***************************************************************************)
MaxMessages == 2

\* the message types whose handler starts with storage.getAll()
GetAllTypes == {"CHECK_STATUS", "CHECK_STATUS_BY_FILENAME", "GET_SETTINGS",
                "GET_TRANSFERRED_LIST"}

\* the types handled here; UPLOAD_PDF, MARK_TRANSFERRED, REMOVE_TRANSFERRED
\* and SYNC_BORING_TAX_FILES are handled by Receive
PlainTypes == GetAllTypes \cup {"GET_BORING_TAX_FILES", "TEST_CONNECTION", "SAVE_SETTINGS"}

UnknownType == "UNKNOWN"

\* listener: .catch(error => sendResponse({success: false, error: error.message}))
Caught(rec) == [Failed(rec) EXCEPT !.outcome = "caught"]

\* a promise whose executor's callback threw: it never settles
NeverSettles(rec) == [rec EXCEPT !.pc = "pending"]

\* handleMessage: the switch over message.type up to the first await; the
\* default case returns {success:false, error} at once
HandleMessage(type) ==
    LET rec == [NoHandler EXCEPT !.op = type]
    IN  IF type \in GetAllTypes THEN [rec EXCEPT !.pc = "getAll"]
        ELSE IF type = "GET_BORING_TAX_FILES" THEN [rec EXCEPT !.pc = "getCache"]
        ELSE IF type = "TEST_CONNECTION" THEN [rec EXCEPT !.pc = "test"]
        ELSE IF type = "SAVE_SETTINGS" THEN [rec EXCEPT !.pc = "save"]
        ELSE Returned([rec EXCEPT !.outcome = "unknown"], FALSE, FALSE)

ReceiveMessage(type) ==
    /\ budget > 0
    /\ FreeIds # {}
    /\ budget' = budget - 1
    /\ handlers' = [handlers EXCEPT ![NextFree] = HandleMessage(type)]
    /\ UNCHANGED <<storeVars, uploadedFiles, inboxVars>>
    /\ UNCHANGED <<pageVars, timerVars, sends>>

\* storage.getAll() answers in handleCheckStatus, handleCheckStatusByFilename,
\* handleGetSettings, handleGetTransferredList. storageOk = FALSE: the
\* callback resolves with undefined, reading a field of it throws inside the
\* handler, handleMessage rejects and the listener's catch answers
GetAllAnswers(h, storageOk) ==
    /\ handlers[h].pc = "getAll"
    /\ handlers' = [handlers EXCEPT ![h] =
            IF ~storageOk THEN Caught(@)
            ELSE IF @.op = "CHECK_STATUS_BY_FILENAME" THEN [@ EXCEPT !.pc = "getCache"]
            ELSE Returned([@ EXCEPT !.outcome = "data"], TRUE, FALSE)]
    /\ UNCHANGED <<storeVars, uploadedFiles, inboxVars, budget>>
    /\ UNCHANGED <<pageVars, timerVars, sends>>

\* storage.getBoringTaxFiles() answers in handleCheckStatusByFilename
\* (through isFileInBoringTax) and handleGetBoringTaxFiles. storageOk = FALSE:
\* the callback itself reads result[...] of undefined and throws before it
\* calls resolve, so the promise the handler awaits never settles
GetCacheAnswers(h, storageOk) ==
    /\ handlers[h].pc = "getCache"
    /\ handlers' = [handlers EXCEPT ![h] =
            IF storageOk THEN Returned([@ EXCEPT !.outcome = "data"], TRUE, FALSE)
            ELSE NeverSettles(@)]
    /\ UNCHANGED <<storeVars, uploadedFiles, inboxVars, budget>>
    /\ UNCHANGED <<pageVars, timerVars, sends>>

\* handleSaveSettings: storage.saveSettings(apiKey, orgId) of the payload
\* (k, o); its callback is resolve, so the handler goes on to the connection
\* test whether the write worked (written) or not
SaveSettingsAnswers(h, k, o, written) ==
    /\ handlers[h].pc = "save"
    /\ apiKey' = IF written THEN k ELSE apiKey
    /\ orgId' = IF written THEN o ELSE orgId
    /\ handlers' = [handlers EXCEPT ![h] = [@ EXCEPT !.pc = "test", !.wrote = written]]
    /\ UNCHANGED <<transferredEmails, boringTaxFiles, boringTaxLastSync, budget,
                   uploadedFiles, inboxVars>>
    /\ UNCHANGED <<pageVars, timerVars, sends>>

\* apiClient.testConnection() answers true or false, it never throws:
\* handleSaveSettings answers success either way, handleTestConnection
\* answers success only when connected
ConnectionTested(h, connected) ==
    /\ handlers[h].pc = "test"
    /\ handlers' = [handlers EXCEPT ![h] =
            Returned([@ EXCEPT !.outcome = IF connected THEN "connected" ELSE "unverified"],
                     @.op = "SAVE_SETTINGS" \/ connected, @.wrote)]
    /\ UNCHANGED <<storeVars, uploadedFiles, inboxVars, budget>>
    /\ UNCHANGED <<pageVars, timerVars, sends>>

\* every step handler h can take between its message and its answer
MessageStep(h) ==
    \/ \E ok \in BOOLEAN : ReadSettings(h, ok)
    \/ \E outcome \in {"ok", "empty", "error"} : BackendUpload(h, outcome)
    \/ \E ok \in BOOLEAN : ReadHistory(h, ok)
    \/ WriteHistory(h)
    \/ \E primary \in ListResponses, alternate \in ListResponses :
            BackendList(h, primary, alternate)
    \/ WriteCache(h)
    \/ \E ok \in BOOLEAN : GetAllAnswers(h, ok)
    \/ \E ok \in BOOLEAN : GetCacheAnswers(h, ok)
    \/ \E k \in Keys \ {""}, o \in Keys \ {""}, w \in BOOLEAN : SaveSettingsAnswers(h, k, o, w)
    \/ \E c \in BOOLEAN : ConnectionTested(h, c)

MessagesInit == InitStore /\ budget = MaxMessages /\ NoPage /\ InitObserver

MessagesNext ==
    \/ \E type \in PlainTypes \cup {UnknownType} : ReceiveMessage(type)
    \/ \E e \in {"E1"}, f \in {<<"a", ".pdf">>} : Receive("UPLOAD_PDF", e, f)
    \/ \E e \in {"E1"}, f \in {<<"a", ".pdf">>} : Receive("MARK_TRANSFERRED", e, f)
    \/ Receive("REMOVE_TRANSFERRED", "E1", <<>>)
    \/ SyncRequest
    \/ \E h \in HandlerIds : MessageStep(h)
    \/ \E h \in HandlerIds : ReplyOutside(h)

SpecMessages == MessagesInit /\ [][MessagesNext]_vars

(***************************************************************************)
(* content script: initObserver, the debounced rescans                     *)
(***************************************************************************)
MaxBatches == 5

EmailDelay == 300

InboxDelay == 500

Delay(class) == IF class = "email" THEN EmailDelay ELSE InboxDelay

\* time is observed every 100 ms
Steps == {100, 200}

\* setTimeout(callback, delay): a pending timer with the whole delay left
SetTimeout(ts, id, class) == ts \cup {[id |-> id, class |-> class, left |-> Delay(class)]}

KeepTimeout(ts, id) == ts

\* clearTimeout(id): no effect when the timer has run already
ClearTimeout(ts, id) == {t \in ts : t.id # id}

\* a cancel that clears the timers of both classes
CancelAll(ts, handle) == {}

\* if (handle) clearTimeout(handle)
Cancel(ts, handle) == IF handle # 0 THEN ClearTimeout(ts, handle) ELSE ts

\* the MutationObserver callback on one batch of mutations. attach: some added
\* element is or holds an attachment area (.aQH, .aZo, .adn); row: some added
\* element is or holds an inbox row (.brc, .zA, or a [title*=".pdf"])
MutationBatch(attach, row) ==
    /\ budget > 0
    /\ budget' = budget - 1
    /\ LET shouldScanEmail == attach /\ IsInOpenedEmail(loc)
           shouldScanInbox == row /\ ~IsInOpenedEmail(loc)
           hit == [c \in Classes |-> IF c = "email" THEN shouldScanEmail ELSE shouldScanInbox]
           afterEmail == IF shouldScanEmail
                         THEN SetTimeout(Cancel(timers, scanTimeout), nextTimer, "email")
                         ELSE timers
           inboxId == IF shouldScanEmail THEN nextTimer + 1 ELSE nextTimer
       IN  /\ timers' = IF shouldScanInbox
                        THEN SetTimeout(Cancel(afterEmail, inboxScanTimeout), inboxId, "inbox")
                        ELSE afterEmail
           /\ scanTimeout' = IF shouldScanEmail THEN nextTimer ELSE scanTimeout
           /\ inboxScanTimeout' = IF shouldScanInbox THEN inboxId ELSE inboxScanTimeout
           /\ nextTimer' = IF shouldScanInbox THEN inboxId + 1 ELSE inboxId
           /\ sinceBatch' = [c \in Classes |-> IF hit[c] THEN 0 ELSE sinceBatch[c]]
           /\ burst' = [c \in Classes |->
                            IF ~hit[c] THEN burst[c]
                            ELSE IF scans[c] > 0 THEN 1 ELSE burst[c] + 1]
           /\ scans' = [c \in Classes |-> IF hit[c] THEN 0 ELSE scans[c]]
    /\ UNCHANGED <<storeVars, uploadedFiles, inboxVars, handlers, pageVars, lastUrl, sends>>

\* d ms pass: no pending timer is overdue
Tick(d) ==
    /\ timers # {}
    /\ \A t \in timers : t.left >= d
    /\ timers' = {[t EXCEPT !.left = @ - d] : t \in timers}
    /\ sinceBatch' = [c \in Classes |->
                        IF sinceBatch[c] >= 0 /\ scans[c] = 0
                        THEN sinceBatch[c] + d ELSE sinceBatch[c]]
    /\ UNCHANGED <<storeVars, uploadedFiles, inboxVars, handlers, budget, pageVars>>
    /\ UNCHANGED <<nextTimer, scanTimeout, inboxScanTimeout, scans, burst, lastUrl, sends>>

\* the timer set at lines 783-791 runs: scanForAttachments()
EmailTimerFires ==
    \E t \in timers :
        /\ t.class = "email"
        /\ t.left = 0
        /\ timers' = timers \ {t}
        /\ scans' = [scans EXCEPT !["email"] = @ + 1]
        /\ Scan
        /\ UNCHANGED <<budget, nextTimer, scanTimeout, inboxScanTimeout, sinceBatch, burst, lastUrl, sends>>

\* the timer set at lines 793-801 runs: scanInboxForTransferredEmails(), which
\* returns at once in an opened email and finds no chip in the documents here
InboxTimerFires ==
    \E t \in timers :
        /\ t.class = "inbox"
        /\ t.left = 0
        /\ timers' = timers \ {t}
        /\ scans' = [scans EXCEPT !["inbox"] = @ + 1]
        /\ UNCHANGED <<storeVars, uploadedFiles, inboxVars, handlers, budget, pageVars>>
        /\ UNCHANGED <<nextTimer, scanTimeout, inboxScanTimeout, sinceBatch, burst, lastUrl, sends>>

\* Gmail, a single-page application, shows another view
Navigate(l) ==
    /\ budget > 0
    /\ budget' = budget - 1
    /\ l # loc
    /\ loc' = l
    /\ UNCHANGED <<storeVars, uploadedFiles, inboxVars, handlers, dom, processed, nodes, calls, scanCount, timerVars, sends>>

\* a mail page without attachments on which Gmail keeps adding elements
TimerInit ==
    /\ InitStore
    /\ budget = MaxBatches
    /\ \E l \in Locations : InitPage(l, <<>>)
    /\ InitObserver

TimerNext ==
    \/ \E attach \in BOOLEAN, row \in BOOLEAN : MutationBatch(attach, row)
    \/ \E d \in Steps : Tick(d)
    \/ EmailTimerFires
    \/ InboxTimerFires
    \/ \E l \in Locations : Navigate(l)

SpecTimer == TimerInit /\ [][TimerNext]_vars

(***************************************************************************)
(* content script: scanInboxForTransferredEmails                           *)
(***************************************************************************)
\* what the chip query can return: element e itself (ind = 0) or the ind-th
\* indicator inserted next to it
Chip(e, ind) == [elem |-> e, ind |-> ind]

\* an indicator whose data-tooltip is the bare file name
BareTooltip(fileName) == fileName

\* createInboxIndicator without a transfer date: data-tooltip is
\* `${fileName} - Bereits übertragen`
IndicatorTooltip(fileName) == fileName \o <<" ", "transferred">>

\* the indicator span: its data-tooltip, and the indicators that were
\* inserted next to it in turn
Indicator(fileName) == [tooltip |-> IndicatorTooltip(fileName), own |-> 0]

\* the attributes of a chip; an indicator has a data-tooltip and no title
ChipSig(c) ==
    IF c.ind = 0 THEN dom[c.elem].sig
    ELSE Sig(<<>>, indicators[c.elem][c.ind].tooltip, <<>>, <<>>, <<>>)

\* '[data-tooltip*=".pdf"]:not(.grm-inbox-processed)'; the documents here hold
\* no '.brc' / '.brg' element
IsAttachmentChip(c) == IncludesPdf(ChipSig(c).tooltip) /\ c \notin inboxProcessed

RECURSIVE IndicatorChips(_, _)
\* the indicators next to element e that the query returns, from the ind-th
\* down: insertBefore(indicator, chip.nextSibling) puts the newest first
IndicatorChips(e, ind) ==
    IF ind = 0 THEN <<>>
    ELSE (IF IsAttachmentChip(Chip(e, ind)) THEN <<Chip(e, ind)>> ELSE <<>>)
            \o IndicatorChips(e, ind - 1)

RECURSIVE AttachmentChips(_)
\* document.querySelectorAll(...): the static list, from element e on
AttachmentChips(e) ==
    IF e > Len(dom) THEN <<>>
    ELSE (IF IsAttachmentChip(Chip(e, 0)) THEN <<Chip(e, 0)>> ELSE <<>>)
            \o IndicatorChips(e, Len(indicators[e]))
            \o AttachmentChips(e + 1)

\* chip.getAttribute('title') || chip.getAttribute('data-tooltip') || ''
ChipFileName(sig) == IF sig.title # <<>> THEN sig.title ELSE sig.tooltip

RECURSIVE LoopOn(_, _, _)
\* the for loop over the chips from position pos on, up to its next await:
\* the position it waits at (past the end: the loop is over) and the elements
\* marked grm-inbox-processed by then
LoopOn(chips, pos, marked) ==
    IF pos > Len(chips) THEN [pos |-> pos, marked |-> marked]
    ELSE IF chips[pos] \in marked THEN LoopOn(chips, pos + 1, marked)
    ELSE IF ~EndsWithPdf(ToLowerCase(ChipFileName(ChipSig(chips[pos]))))
         THEN LoopOn(chips, pos + 1, marked \cup {chips[pos]})
         ELSE [pos |-> pos, marked |-> marked \cup {chips[pos]}]

\* a scanInboxForTransferredEmails call waiting for the answer about chips[pos]
InboxScan(chips, pos) ==
    [chips |-> chips, pos |-> pos, pc |-> "history", nameHit |-> FALSE,
     isInBoringTax |-> "none"]

\* scanInboxForTransferredEmails up to its first await
ScanInboxForTransferredEmails ==
    /\ budget > 0
    /\ budget' = budget - 1
    /\ IF IsInOpenedEmail(loc)
       THEN UNCHANGED inboxVars
       ELSE LET chips == AttachmentChips(1)
                at == LoopOn(chips, 1, inboxProcessed)
            IN  /\ inboxProcessed' = at.marked
                /\ inboxScans' = IF at.pos > Len(chips) THEN inboxScans
                                 ELSE Append(inboxScans, InboxScan(chips, at.pos))
                /\ UNCHANGED indicators
    /\ UNCHANGED <<timerVars, sends, storeVars, uploadedFiles, handlers, pageVars>>

\* handleCheckStatusByFilename for a chip, first await; storageOk = FALSE: the
\* listener answers {success:false, error}
InboxCheckHistory(j, storageOk) ==
    /\ inboxScans[j].pc = "history"
    /\ inboxScans' = [inboxScans EXCEPT ![j] =
            IF storageOk
            THEN [@ EXCEPT !.pc = "cache",
                           !.nameHit = IsFileTransferredByName(transferredEmails,
                                ChipFileName(ChipSig(inboxScans[j].chips[inboxScans[j].pos])))]
            ELSE [@ EXCEPT !.pc = "answer", !.isInBoringTax = "error"]]
    /\ UNCHANGED <<timerVars, sends, storeVars, uploadedFiles, handlers, budget, pageVars,
                   inboxProcessed, indicators>>

\* handleCheckStatusByFilename for a chip, second await
InboxCheckCache(j) ==
    /\ inboxScans[j].pc = "cache"
    /\ inboxScans' = [inboxScans EXCEPT ![j] =
            [@ EXCEPT !.pc = "answer",
                      !.isInBoringTax =
                          IF \/ IsFileInBoringTax(boringTaxFiles,
                                    ChipFileName(ChipSig(inboxScans[j].chips[inboxScans[j].pos])))
                             \/ inboxScans[j].nameHit
                          THEN "true" ELSE "false"]]
    /\ UNCHANGED <<timerVars, sends, storeVars, uploadedFiles, handlers, budget, pageVars,
                   inboxProcessed, indicators>>

\* the loop resumes with the answer: the indicator is inserted after the chip
\* when status.isInBoringTax is truthy, and the loop runs on to its next await
InboxAnswered(j) ==
    /\ inboxScans[j].pc = "answer"
    /\ LET scan == inboxScans[j]
           at == LoopOn(scan.chips, scan.pos + 1, inboxProcessed)
           chip == scan.chips[scan.pos]
       IN  /\ indicators' =
                IF scan.isInBoringTax # "true" THEN indicators
                ELSE IF chip.ind = 0
                     THEN [indicators EXCEPT ![chip.elem] =
                                Append(@, Indicator(ChipFileName(ChipSig(chip))))]
                     ELSE [indicators EXCEPT ![chip.elem][chip.ind].own = @ + 1]
           /\ inboxProcessed' = at.marked
           /\ inboxScans' = IF at.pos > Len(scan.chips) THEN RemoveAt(inboxScans, j)
                            ELSE [inboxScans EXCEPT ![j] = InboxScan(scan.chips, at.pos)]
    /\ UNCHANGED <<timerVars, sends, storeVars, uploadedFiles, handlers, budget, pageVars>>

InboxStep ==
    \E j \in 1..Len(inboxScans) :
        \/ \E ok \in BOOLEAN : InboxCheckHistory(j, ok)
        \/ InboxCheckCache(j)
        \/ InboxAnswered(j)

(***************************************************************************)
(* content script: the 5 s interval of init                                *)
(***************************************************************************)
\* scanCount stops counting here, so that the interval can fire for ever
MaxScans == 3

\* setInterval(() => { if (isInOpenedEmail()) scanForAttachments();
\*                     else scanInboxForTransferredEmails(); }, 5000),
\* each up to its first await; only the one that passes its own view test
\* does anything, which is also what scanForAttachments() followed by
\* scanInboxForTransferredEmails() does
BothScans ==
    /\ IF IsInOpenedEmail(loc)
       THEN /\ processed' = processed \cup {e \in Elems : MarksProcessed(ProcessOutcome(e))}
            /\ calls' = [i \in 1..Len(calls) |-> [calls[i] EXCEPT !.overlapped = TRUE]]
                            \o NewCalls(1)
            /\ scanCount' = IF scanCount < MaxScans THEN scanCount + 1 ELSE scanCount
            /\ UNCHANGED inboxVars
       ELSE LET chips == AttachmentChips(1)
                at == LoopOn(chips, 1, inboxProcessed)
            IN  /\ inboxProcessed' = at.marked
                /\ inboxScans' = IF at.pos > Len(chips) THEN inboxScans
                                 ELSE Append(inboxScans, InboxScan(chips, at.pos))
                /\ UNCHANGED <<indicators, processed, calls, scanCount>>
    /\ UNCHANGED <<storeVars, uploadedFiles, handlers, budget, loc, dom, nodes>>

PeriodicScan == BothScans /\ UNCHANGED <<timerVars, sends>>

\* the page stays where it was loaded: the scans of init's two timeouts, the
\* interval, and the answers to the status messages
PeriodicNext ==
    \/ ScanForAttachments
    \/ PeriodicScan
    \/ StatusStep
    \/ InboxStep

\* the interval fires every 5 s as long as the page lives, and every status
\* message is answered or fails
SpecPeriodic ==
    /\ PageInit
    /\ [][PeriodicNext]_vars
    /\ WF_vars(PeriodicScan)
    /\ WF_vars(StatusStep)

\* user events of one page session in SpecView: scans and view changes
MaxViews == 3

\* the stored history a page session may find: empty, or one file marked
\* as transferred in an earlier session
Histories == {<<>>, <<TransferredEmail("E1", <<"a", ".pdf">>)>>}

ViewInit ==
    /\ apiKey = ""
    /\ orgId = ""
    /\ transferredEmails \in Histories
    /\ boringTaxFiles = <<>>
    /\ boringTaxLastSync = 0
    /\ handlers = [h \in HandlerIds |-> NoHandler]
    /\ uploadedFiles = {}
    /\ budget = MaxViews
    /\ \E l \in Locations, d \in Documents : InitPage(l, d)
    /\ InitObserver

\* both scans while Gmail changes between the list and an opened message
ViewNext ==
    \/ ScanForAttachments
    \/ StatusStep
    \/ ScanInboxForTransferredEmails
    \/ InboxStep
    \/ \E l \in Locations : Navigate(l)

SpecView == ViewInit /\ [][ViewNext]_vars

(***************************************************************************)
(* content script: the URL poll of init                                    *)
(***************************************************************************)
PollPeriod == 1000

SettleDelay == 500

SecondDelay == 1500

\* the setInterval(..., 1000) of the poll, waiting for its next run
PollTimer == [id |-> 0, class |-> "poll", left |-> PollPeriod]

\* setTimeout(() => { scanForAttachments(); scanInboxForTransferredEmails(); },
\* delay), scheduled when the poll saw url
UrlTimer(id, delay, url) == [id |-> id, class |-> "url", left |-> delay, url |-> url]

\* the poll runs: if (window.location.href !== lastUrl) it records the new
\* location and schedules the two scans
PollFires ==
    \E t \in timers :
        /\ t.class = "poll"
        /\ t.left = 0
        /\ IF loc.hash # lastUrl
           THEN /\ lastUrl' = loc.hash
                /\ timers' = (timers \ {t}) \cup
                        {PollTimer, UrlTimer(nextTimer, SettleDelay, loc.hash),
                         UrlTimer(nextTimer + 1, SecondDelay, loc.hash)}
                /\ nextTimer' = nextTimer + 2
           ELSE /\ timers' = (timers \ {t}) \cup {PollTimer}
                /\ UNCHANGED <<lastUrl, nextTimer>>
        /\ UNCHANGED <<scanTimeout, inboxScanTimeout, sinceBatch, scans, burst, sends>>
        /\ UNCHANGED <<storeVars, uploadedFiles, inboxVars, handlers, budget, pageVars>>

\* one of the two timeouts of the poll runs both scans
UrlTimerFires ==
    \E t \in timers :
        /\ t.class = "url"
        /\ t.left = 0
        /\ timers' = timers \ {t}
        /\ BothScans
        /\ UNCHANGED <<nextTimer, scanTimeout, inboxScanTimeout, sinceBatch, scans, burst, lastUrl, sends>>

\* the poll and its timeouts run on multiples of 500 ms
PollSteps == {SettleDelay}

\* the content script has just run init in a page with one PDF attachment
PollInit ==
    /\ InitStore
    /\ budget = MaxViews
    /\ \E l \in Locations : InitPage(l, << Element(TooltipA, 0, TRUE) >>)
    /\ timers = {PollTimer}
    /\ nextTimer = 1
    /\ scanTimeout = 0
    /\ inboxScanTimeout = 0
    /\ sinceBatch = [c \in Classes |-> -1]
    /\ scans = [c \in Classes |-> 0]
    /\ burst = [c \in Classes |-> 0]
    /\ lastUrl = loc.hash
    /\ sends = <<>>

PollNext ==
    \/ \E l \in Locations : Navigate(l)
    \/ \E d \in PollSteps : Tick(d)
    \/ PollFires
    \/ UrlTimerFires
    \/ StatusStep
    \/ InboxStep

\* time passes, and a timer that is due runs
SpecPoll ==
    /\ PollInit
    /\ [][PollNext]_vars
    /\ WF_vars(\E d \in PollSteps : Tick(d))
    /\ WF_vars(PollFires)
    /\ WF_vars(UrlTimerFires)


(***************************************************************************)
(* Properties                                                              *)
(***************************************************************************)
RecordsOf(list, emailId) == {i \in 1..Len(list) : list[i].emailId = emailId}

OthersOf(list, emailId) == SelectSeq(list, LAMBDA r : r.emailId # emailId)

IsUpsert(rec) == rec.pc = "write" /\ rec.op \in {"UPLOAD_PDF", "MARK_TRANSFERRED"}

\* C3: an add (MARK_TRANSFERRED / addTransferredEmail) that runs with no other
\* write between its read and its write leaves exactly one record of its
\* emailId, carrying its fileName, and the records of the other emailIds as
\* they were, in order; so the second of two such calls for one emailId
\* leaves one record with the second fileName.
C3_Upsert ==
    [][\A h \in HandlerIds :
        (/\ IsUpsert(handlers[h])
         /\ handlers'[h].pc = "reply"
         /\ handlers[h].snap = transferredEmails)
        => (/\ Cardinality(RecordsOf(transferredEmails', handlers[h].emailId)) = 1
            /\ \A i \in RecordsOf(transferredEmails', handlers[h].emailId) :
                  transferredEmails'[i].fileName = handlers[h].fileName
            /\ OthersOf(transferredEmails', handlers[h].emailId)
                  = OthersOf(transferredEmails, handlers[h].emailId))]_vars

\* a second add for an emailId, with another fileName, has just completed
C3_Witness ==
    \E h \in HandlerIds :
        /\ handlers[h].pc = "reply"
        /\ handlers[h].op = "MARK_TRANSFERRED"
        /\ handlers[h].upsert = "renamed"
        /\ Len(transferredEmails) = 2

\* C4: the stored history never holds two records of one emailId, whatever
\* the interleaving of the UPLOAD_PDF, MARK_TRANSFERRED and REMOVE_TRANSFERRED
\* handlers' reads and writes.
C4_OnePerEmail ==
    \A e \in EmailIds : Cardinality(RecordsOf(transferredEmails, e)) <= 1

\* an add holds a list read before another handler stored a record of the
\* same emailId, and is about to write
C4_Witness ==
    \E h \in HandlerIds :
        /\ IsUpsert(handlers[h])
        /\ ~HasEmail(handlers[h].snap, handlers[h].emailId)
        /\ HasEmail(transferredEmails, handlers[h].emailId)
        /\ \E g \in HandlerIds :
                handlers[g].pc = "reply" /\ handlers[g].upsert \in {"stale", "lost"}

(***************************************************************************)
(* Status reconciliation                                                   *)
(***************************************************************************)
SameName(f, g) == Trim(ToLowerCase(f)) = Trim(ToLowerCase(g))

NameInHistory(fileName) ==
    \E r \in 1..Len(transferredEmails) : SameName(transferredEmails[r].fileName, fileName)

NameInCache(fileName) ==
    \E j \in 1..Len(boringTaxFiles) : SameName(boringTaxFiles[j], fileName)

\* call i of processAttachment moves from await `from` to await `to`
Advances(i, from, to) ==
    /\ calls[i].pc = from
    /\ Len(calls') = Len(calls)
    /\ calls'[i].pc = to

\* call i of processAttachment inserts its node and ends
Renders(i) ==
    /\ calls[i].pc = "byEmailDone"
    /\ calls' = RemoveAt(calls, i)
    /\ Len(nodes'[calls[i].elem]) = Len(nodes[calls[i].elem]) + 1

Inserted(i) == nodes'[calls[i].elem][Len(nodes'[calls[i].elem])]

\* C1: for a PDF candidate with file name F and email id E, the name check
\* answers "known" exactly when F, lowercased and trimmed, equals a name of
\* the cached remote list or the fileName of a transfer record; the email
\* check answers "transferred" exactly when a record for E exists; and
\* processAttachment inserts a badge when either answer is positive and an
\* upload button otherwise. A name match alone gives the badge.
C1_BadgeRule ==
    [][\A i \in 1..Len(calls) :
        /\ Advances(i, "byName", "byNameMid")
            => (calls'[i].nameHit <=> NameInHistory(calls[i].fileName))
        /\ Advances(i, "byNameMid", "byNameDone")
            => (calls'[i].byName = "true"
                    <=> (calls[i].nameHit \/ NameInCache(calls[i].fileName)))
        /\ (Advances(i, "byEmail", "byEmailDone") /\ calls'[i].byEmail # "error")
            => (calls'[i].byEmail = "true"
                    <=> RecordsOf(transferredEmails, calls[i].emailId) # {})
        /\ Renders(i)
            => /\ calls[i].fileName = GetAttachmentFileName(dom[calls[i].elem].sig)
               /\ calls[i].emailId = ExtractEmailId(loc)
               /\ (calls[i].byName = "true" \/ calls[i].byEmail = "true")
                    => Inserted(i).type = "badge"
               /\ (calls[i].byName # "true" /\ calls[i].byEmail # "true")
                    => Inserted(i).type = "button"]_vars

\* a badge stands at a candidate although no transfer record exists at all:
\* its name is in the cached remote list, written there in another case and
\* with a leading blank
C1_Witness ==
    /\ transferredEmails = <<>>
    /\ \E e \in Elems :
        /\ Len(nodes[e]) = 1
        /\ nodes[e][1].type = "badge"
        /\ ~nodes[e][1].failed
        /\ NameInCache(GetAttachmentFileName(dom[e].sig))
        /\ \A j \in 1..Len(boringTaxFiles) :
                boringTaxFiles[j] # GetAttachmentFileName(dom[e].sig)

\* C2: fail-open. A candidate one of whose status checks failed (the message
\* was rejected, or the storage read inside the handler failed) ends with an
\* upload button, never with a badge.
C2_FailOpen ==
    \A e \in Elems : \A k \in 1..Len(nodes[e]) :
        (nodes[e][k].failed /\ ~nodes[e][k].uploaded) => nodes[e][k].type = "button"

(***************************************************************************)
(* Upload                                                                  *)
(***************************************************************************)
\* handler h of UPLOAD_PDF completes its write of the history
UploadWrites(h) ==
    /\ handlers[h].op = "UPLOAD_PDF"
    /\ handlers[h].pc = "write"
    /\ handlers'[h].pc = "reply"

\* the page receives the answer of handler h
Answered(h) ==
    /\ handlers[h].pc = "reply"
    /\ handlers[h].origin # 0
    /\ handlers'[h].pc = "free"

\* C5: a click on the upload button of file F in email E whose download
\* succeeds sends UPLOAD_PDF for F and E; when the backend is configured and
\* accepts the file, the handler's write leaves exactly one record for E, with
\* fileName F (one record more than it read when it read none for E), and
\* answers success; on that answer the button is replaced in place by a
\* badge, the element's only affordance.
C5_UploadSuccess ==
    [][\A h \in HandlerIds :
        /\ (handlers[h].pc = "free" /\ handlers'[h].op = "UPLOAD_PDF")
            => /\ handlers'[h].origin \in Elems
               /\ handlers'[h].fileName = GetAttachmentFileName(dom[handlers'[h].origin].sig)
               /\ handlers'[h].emailId = ExtractEmailId(loc)
        /\ UploadWrites(h)
            => /\ handlers[h].outcome = "ok"
               /\ handlers'[h].success
               /\ Cardinality(RecordsOf(transferredEmails', handlers[h].emailId)) = 1
               /\ \A i \in RecordsOf(transferredEmails', handlers[h].emailId) :
                     transferredEmails'[i].fileName = handlers[h].fileName
               /\ RecordsOf(handlers[h].snap, handlers[h].emailId) = {}
                     => Len(transferredEmails') = Len(handlers[h].snap) + 1
        /\ (Answered(h) /\ handlers[h].success)
            => /\ handlers[h].wrote
               /\ Len(nodes[handlers[h].origin]) = 1
               /\ nodes[handlers[h].origin][1].type = "button"
               /\ Len(nodes'[handlers[h].origin]) = 1
               /\ nodes'[handlers[h].origin][1].type = "badge"]_vars

\* the button of an element has become a badge and the record of the upload
\* is in the history
C5_Witness ==
    \E e \in Elems :
        /\ Len(nodes[e]) = 1
        /\ nodes[e][1].type = "badge"
        /\ nodes[e][1].uploaded
        /\ \E i \in RecordsOf(transferredEmails, ExtractEmailId(loc)) :
                transferredEmails[i].fileName = GetAttachmentFileName(dom[e].sig)

\* C6: when the backend rejects the upload (non-2xx or transport error) or
\* returns an empty entity list, handleUploadPdf answers success = false
\* without reading or writing the history, and on that answer the button
\* stays a button (in its error state); the history is as it was.
C6_FailedUpload ==
    [][\A h \in HandlerIds :
        /\ (handlers[h].pc = "backend" /\ handlers'[h].outcome \in {"empty", "error"})
            => /\ handlers'[h].pc = "reply"
               /\ ~handlers'[h].success
               /\ ~handlers'[h].wrote
               /\ transferredEmails' = transferredEmails
        /\ (Answered(h) /\ handlers[h].outcome \in {"empty", "error"})
            => /\ ~handlers[h].success
               /\ transferredEmails' = transferredEmails
               /\ Len(nodes'[handlers[h].origin]) = Len(nodes[handlers[h].origin])
               /\ \A k \in 1..Len(nodes'[handlers[h].origin]) :
                    /\ nodes'[handlers[h].origin][k].type = nodes[handlers[h].origin][k].type
                    /\ nodes[handlers[h].origin][k].up = "sent"
                        => /\ nodes'[handlers[h].origin][k].type = "button"
                           /\ nodes'[handlers[h].origin][k].label = "error"]_vars

\* the answer of a failed upload is on its way to the page, nothing recorded
C6_Witness ==
    \E h \in HandlerIds :
        /\ handlers[h].pc = "reply"
        /\ handlers[h].origin # 0
        /\ handlers[h].outcome \in {"empty", "error"}
        /\ nodes[handlers[h].origin][1].up = "sent"
        /\ transferredEmails = <<>>

(***************************************************************************)
(* Scans                                                                   *)
(***************************************************************************)
CallsOf(e) == {i \in 1..Len(calls) : calls[i].elem = e}

\* C7: once a scan has run on the page, a further scan of the unchanged page
\* starts no status check and inserts nothing.
C7_IdempotentRescan ==
    [][(scanCount >= 1 /\ scanCount' = scanCount + 1)
        => /\ nodes' = nodes
           /\ Len(calls') = Len(calls)
           /\ \A i \in 1..Len(calls) : calls'[i].elem = calls[i].elem]_vars

\* a second scan has run after the first one's candidates got their nodes
C7_Witness ==
    /\ scanCount = 2
    /\ calls = <<>>
    /\ \E e \in Elems : Len(nodes[e]) = 1
    /\ \A e \in Elems : Len(nodes[e]) <= 1

\* C8: whatever scans overlap, the nodes an attachment element has received
\* and the processAttachment calls still under way for it are together at
\* most one.
C8_OneAffordance ==
    \A e \in Elems : Len(nodes[e]) + Cardinality(CallsOf(e)) <= 1

\* an element got its node from a call that a later scan overlapped
C8_Witness ==
    \E e \in Elems :
        /\ Len(nodes[e]) = 1
        /\ nodes[e][1].overlapped
        /\ scanCount = 2

\* C9: elements with the same extracted file name hold at most one injected
\* node between them.
C9_OnePerFileName ==
    \A d \in Elems, e \in Elems :
        (/\ d # e
         /\ IsPdfAttachment(dom[d].sig)
         /\ IsPdfAttachment(dom[e].sig)
         /\ GetAttachmentFileName(dom[d].sig) = GetAttachmentFileName(dom[e].sig))
        => Len(nodes[d]) + Len(nodes[e]) <= 1

(***************************************************************************)
(* Debounce                                                                *)
(***************************************************************************)
Pending(c) == {t \in timers : t.class = c}

Handle(c) == IF c = "email" THEN scanTimeout ELSE inboxScanTimeout

\* C10: per mutation class, at most one timer is pending; it is the one set
\* by the last batch of the class and has left what remains of the class's
\* window (300 ms email, 500 ms inbox) since that batch; after the last batch
\* of a burst exactly one scan of the class runs, one window after it.
C10_Debounce ==
    \A c \in Classes :
        /\ Cardinality(Pending(c)) <= 1
        /\ \A t \in Pending(c) :
            /\ t.id = Handle(c)
            /\ t.left = Delay(c) - sinceBatch[c]
            /\ scans[c] = 0
        /\ scans[c] <= 1
        /\ (sinceBatch[c] >= 0 /\ Pending(c) = {})
            => (scans[c] = 1 /\ sinceBatch[c] = Delay(c))

\* two batches of each class came inside one window and one scan has run for
\* them, a window after the second
C10_Witness ==
    /\ burst["email"] >= 2
    /\ scans["email"] = 1
    /\ sinceBatch["email"] = EmailDelay
    /\ burst["inbox"] >= 2
    /\ scans["inbox"] = 1
    /\ sinceBatch["inbox"] = InboxDelay

(***************************************************************************)
(* Name matching                                                           *)
(***************************************************************************)
\* spellings of file names a status message may carry
NameSamples ==
    { <<"a", ".pdf">>, <<" ", "A", ".PDF">>, <<"A", ".pdf", " ">>,
      <<"b", ".pdf">>, <<"B", ".pdf">>, <<"a", " ", ".pdf">> }

\* C11: two file names that are equal after lowercasing and trimming get the
\* same answer from isFileInBoringTax and from isFileTransferredByName, and
\* so the same isInBoringTax from CHECK_STATUS_BY_FILENAME, against every
\* stored cache and history.
C11_NormalizedMatch ==
    \A f \in NameSamples, g \in NameSamples :
        SameName(f, g)
        => /\ IsFileInBoringTax(boringTaxFiles, f) = IsFileInBoringTax(boringTaxFiles, g)
           /\ IsFileTransferredByName(transferredEmails, f)
                = IsFileTransferredByName(transferredEmails, g)

\* the cache and the history each hold a name that two different spellings
\* match, and a spelling with an inner blank matches neither
C11_Witness ==
    /\ \E f \in NameSamples, g \in NameSamples :
        /\ f # g
        /\ SameName(f, g)
        /\ IsFileInBoringTax(boringTaxFiles, f)
        /\ f \notin {boringTaxFiles[j] : j \in 1..Len(boringTaxFiles)}
        /\ g \notin {boringTaxFiles[j] : j \in 1..Len(boringTaxFiles)}
    /\ \E f \in NameSamples, g \in NameSamples :
        /\ f # g
        /\ SameName(f, g)
        /\ IsFileTransferredByName(transferredEmails, f)
        /\ IsFileTransferredByName(transferredEmails, g)
    /\ ~IsFileInBoringTax(boringTaxFiles, <<"a", " ", ".pdf">>)

(***************************************************************************)
(* Racing history writes                                                   *)
(***************************************************************************)
\* C12: the write of an add replaces the stored history by the list the add
\* read with its own record put in, whatever has been stored since: a record
\* of another emailId stored after the read is gone after the write, and the
\* add still answers success.
C12_LastWriteWins ==
    [][\A h \in HandlerIds :
        (IsUpsert(handlers[h]) /\ handlers'[h].pc = "reply")
        => /\ handlers'[h].success
           /\ OthersOf(transferredEmails', handlers[h].emailId)
                = OthersOf(handlers[h].snap, handlers[h].emailId)
           /\ \A e \in EmailIds \ {handlers[h].emailId} :
                RecordsOf(handlers[h].snap, e) = {}
                    => RecordsOf(transferredEmails', e) = {}
           /\ \E i \in 1..Len(transferredEmails') :
                transferredEmails'[i]
                    = TransferredEmail(handlers[h].emailId, handlers[h].fileName)]_vars

\* two uploads have both answered success; the later write dropped the
\* record of the earlier one, and one record is stored
C12_Witness ==
    \E g \in HandlerIds, h \in HandlerIds :
        /\ g # h
        /\ handlers[g].op = "UPLOAD_PDF" /\ handlers[h].op = "UPLOAD_PDF"
        /\ handlers[g].pc = "reply" /\ handlers[h].pc = "reply"
        /\ handlers[g].success /\ handlers[h].success
        /\ handlers[g].upsert = "new"
        /\ handlers[h].upsert = "lost"
        /\ Len(transferredEmails) = 1

(***************************************************************************)
(* Sync of the known-file cache                                            *)
(***************************************************************************)
Range(seq) == {seq[i] : i \in 1..Len(seq)}

\* handler h of SYNC_BORING_TAX_FILES completes saveBoringTaxFiles
SyncWrites(h) ==
    /\ handlers[h].op = "SYNC_BORING_TAX_FILES"
    /\ handlers[h].pc = "write"
    /\ handlers'[h].pc = "reply"

\* C13: a sync that succeeds stores as the cache exactly the names the
\* backend listed together with the fileName of every record of the history
\* it read, each name once, keeps nothing else of the old cache, sets the
\* last-sync stamp anew and answers success.
C13_SyncStoresUnion ==
    [][\A h \in HandlerIds :
        SyncWrites(h)
        => /\ Range(boringTaxFiles')
                = Range(handlers[h].names)
                    \cup {handlers[h].snap[i].fileName : i \in 1..Len(handlers[h].snap)}
           /\ \A i \in 1..Len(boringTaxFiles'), j \in 1..Len(boringTaxFiles') :
                boringTaxFiles'[i] = boringTaxFiles'[j] => i = j
           /\ boringTaxLastSync' # boringTaxLastSync
           /\ handlers'[h].success]_vars

\* a sync has stored a backend name, listed twice, once, and with it a name
\* that only the history holds
C13_Witness ==
    /\ boringTaxLastSync > 0
    /\ Len(boringTaxFiles) = 2
    /\ Len(transferredEmails) = 1
    /\ transferredEmails[1].fileName \in Range(boringTaxFiles)
    /\ \E n \in Range(boringTaxFiles) : n # transferredEmails[1].fileName
    /\ \E h \in HandlerIds :
        /\ handlers[h].op = "SYNC_BORING_TAX_FILES"
        /\ handlers[h].pc = "reply"
        /\ handlers[h].success

\* the isInBoringTax a CHECK_STATUS_BY_FILENAME for fileName gets from the
\* stored cache and history
IsInBoringTax(fileName) ==
    \/ IsFileInBoringTax(boringTaxFiles, fileName)
    \/ IsFileTransferredByName(transferredEmails, fileName)

\* C14: a file whose upload has answered success is reported isInBoringTax by
\* CHECK_STATUS_BY_FILENAME from then on, as long as no REMOVE_TRANSFERRED has
\* been requested for the email it was uploaded from.
C14_LocalStaysVisible ==
    \A u \in uploadedFiles : IsInBoringTax(u.fileName)

(***************************************************************************)
(* Remote operations                                                       *)
(***************************************************************************)
\* C15: while the stored apiKey or orgId is empty, an UPLOAD_PDF or
\* SYNC_BORING_TAX_FILES handler that has read the settings answers
\* success = false at once, with history, cache and sync stamp as they were;
\* no handler reaches its backend call unless both are set.
C15_NotConfigured ==
    [][\A h \in HandlerIds :
        /\ (/\ handlers[h].pc = "settings"
            /\ handlers'[h] # handlers[h]
            /\ (apiKey = "" \/ orgId = ""))
            => /\ handlers'[h].pc = "reply"
               /\ ~handlers'[h].success
               /\ ~handlers'[h].wrote
               /\ transferredEmails' = transferredEmails
               /\ boringTaxFiles' = boringTaxFiles
               /\ boringTaxLastSync' = boringTaxLastSync
        /\ (handlers[h].pc # "backend" /\ handlers'[h].pc = "backend")
            => (apiKey # "" /\ orgId # "")]_vars

\* an upload and a sync have both been refused for want of settings
C15_Witness ==
    /\ apiKey = ""
    /\ \E g \in HandlerIds, h \in HandlerIds :
        /\ handlers[g].op = "UPLOAD_PDF"
        /\ handlers[g].pc = "reply"
        /\ ~handlers[g].success
        /\ handlers[h].op = "SYNC_BORING_TAX_FILES"
        /\ handlers[h].pc = "reply"
        /\ ~handlers[h].success
    /\ transferredEmails = <<>>
    /\ boringTaxLastSync = 0

(***************************************************************************)
(* Upload button                                                           *)
(***************************************************************************)
\* the step is a click (or key press) on the k-th node of element e that
\* handleUpload did not ignore
Clicked(e, k) ==
    /\ k \in 1..Len(nodes[e])
    /\ budget' = budget - 1
    /\ nodes'[e][k] # nodes[e][k]

\* the handlers serving an upload sent from element e
UploadsFrom(e) ==
    {h \in HandlerIds : handlers[h].op = "UPLOAD_PDF" /\ handlers[h].origin = e}

\* C16: a click on the button of an attachment without a resolvable download
\* link ends in the error state with the manual-upload message, with no
\* download started, no UPLOAD_PDF dispatched and the history as it was; such
\* an attachment never has a download or an upload in flight.
C16_NoLinkIsTerminal ==
    /\ [](\A e \in Elems : ~dom[e].link =>
            /\ UploadsFrom(e) = {}
            /\ \A k \in 1..Len(nodes[e]) :
                    nodes[e][k].up = "idle" /\ ~nodes[e][k].loading)
    /\ [][\A e \in Elems : \A k \in 1..Len(nodes[e]) :
            (~dom[e].link /\ Clicked(e, k))
            => /\ nodes'[e][k].label = "error"
               /\ nodes'[e][k].title = "manual"
               /\ ~nodes'[e][k].loading
               /\ nodes'[e][k].up = "idle"
               /\ handlers' = handlers
               /\ transferredEmails' = transferredEmails]_vars

\* the button of a link-less attachment shows the manual-upload error
C16_Witness ==
    \E e \in Elems : \E k \in 1..Len(nodes[e]) :
        /\ ~dom[e].link
        /\ nodes[e][k].type = "button"
        /\ nodes[e][k].label = "error"
        /\ nodes[e][k].title = "manual"
        /\ UploadsFrom(e) = {}

\* C17: a button in the error state is not loading, so its next click starts
\* an attempt; a download starts only in a click step on a button that was
\* not loading, and an UPLOAD_PDF handler is created only by the download of
\* such an attempt - never by a timer, a scan or a render.
C17_RetryOnlyByClick ==
    /\ [](\A e \in Elems : \A k \in 1..Len(nodes[e]) :
            nodes[e][k].label = "error" => (~nodes[e][k].loading /\ nodes[e][k].up = "idle"))
    /\ [][\A e \in Elems : \A k \in 1..Len(nodes[e]) :
            /\ (nodes[e][k].up # "downloading" /\ nodes'[e][k].up = "downloading")
                => /\ Clicked(e, k)
                   /\ ~nodes[e][k].loading
                   /\ scanCount' = scanCount
                   /\ timers' = timers
            /\ (nodes[e][k].up # "sent" /\ nodes'[e][k].up = "sent")
                => nodes[e][k].up = "downloading"
            /\ (nodes[e][k].up = "idle" /\ nodes[e][k].type = "button")
                => \A h \in HandlerIds :
                    (handlers[h] = NoHandler /\ handlers'[h].op = "UPLOAD_PDF")
                        => handlers'[h].origin # e]_vars

\* a second attempt is running on a button whose first attempt failed: the
\* title still carries the first failure
C17_Witness ==
    \E e \in Elems : \E k \in 1..Len(nodes[e]) :
        /\ nodes[e][k].up = "downloading"
        /\ nodes[e][k].title \in {"download", "upload"}

\* C18 (as stated): a button that shows the reload-the-page state shows it
\* in every later state of the page session.
C18_ReloadStateStays ==
    [][\A e \in Elems : \A k \in 1..Len(nodes[e]) :
        (nodes[e][k].label = "reload" /\ ~Clicked(e, k))
            => nodes'[e][k].label = "reload"]_vars

(***************************************************************************)
(* Views                                                                   *)
(***************************************************************************)
\* a button or badge is inserted at element e in this step
NodeInserted(e) == Len(nodes'[e]) > Len(nodes[e])

\* the step is a call of scanForAttachments or scanInboxForTransferredEmails
ScanStarts == budget' = budget - 1 /\ loc' = loc

\* C19 (as stated, the view taken at the moment of the injection): a button
\* or badge is inserted only while the page is in open-message view, an
\* inbox indicator only while it is not.
C19_InjectsInItsView ==
    [][/\ (\E e \in Elems : NodeInserted(e)) => IsInOpenedEmail(loc)
       /\ indicators' # indicators => ~IsInOpenedEmail(loc)]_vars

\* C19 (corrected, the view taken when the scan is called): a call of
\* scanForAttachments outside open-message view processes no element, and
\* buttons and badges are inserted only at PDF elements and only by the
\* processAttachment calls a scan started; a call of
\* scanInboxForTransferredEmails in open-message view marks and checks no
\* chip, and indicators are inserted only by the loops such a call started.
C19_ViewGate ==
    /\ [](\A e \in Elems : Len(nodes[e]) > 0 => IsPdfAttachment(dom[e].sig))
    /\ [][/\ (ScanStarts /\ ~IsInOpenedEmail(loc))
                => (calls' = calls /\ processed' = processed /\ nodes' = nodes)
          /\ (Len(calls') > Len(calls) \/ processed' # processed)
                => (ScanStarts /\ IsInOpenedEmail(loc))
          /\ (\E e \in Elems : NodeInserted(e)) => Len(calls') < Len(calls)
          /\ (ScanStarts /\ IsInOpenedEmail(loc)) => UNCHANGED inboxVars
          /\ Len(inboxScans') > Len(inboxScans)
                => (ScanStarts /\ ~IsInOpenedEmail(loc))
          /\ (inboxProcessed' # inboxProcessed /\ inboxScans = <<>>)
                => (ScanStarts /\ ~IsInOpenedEmail(loc))
          /\ indicators' # indicators
                => \E j \in 1..Len(inboxScans) : inboxScans[j].pc = "answer"]_vars

\* one page session in which the list scan put an indicator next to a chip
\* and the message scan a button or badge into an attachment
C19_Witness ==
    /\ \E e \in Elems : indicators[e] # <<>>
    /\ \E e \in Elems : Len(nodes[e]) > 0
    /\ scanCount > 0

(***************************************************************************)
(* File listing                                                            *)
(***************************************************************************)
\* C20 (as stated): the listing never raises, so whatever the backend
\* answers, a sync that asked for the listing goes on to read the history.
C20_ListingNeverRaises ==
    [][\A h \in HandlerIds :
        (/\ handlers[h].op = "SYNC_BORING_TAX_FILES"
         /\ handlers[h].pc = "backend"
         /\ handlers'[h] # handlers[h])
            => handlers'[h].pc = "read"]_vars

(***************************************************************************)
(* Signals                                                                 *)
(***************************************************************************)
\* the five signals of an element, in the order isPdfAttachment tests them
SignalsOf(sig) == <<sig.name, sig.tooltip, sig.title, sig.text, sig.aria>>

\* some signal holds '.pdf' in any case
AnySignalHasPdf(sig) ==
    \E i \in 1..5 : IncludesPdf(ToLowerCase(SignalsOf(sig)[i]))

InvoiceTooltip == Sig(<<>>, <<"Invoice_2024", ".pdf">>, <<>>, <<>>, <<>>)

\* the elements a scan took for a PDF: those with a call or a node
TakenAsPdf(e) ==
    \/ Len(nodes[e]) > 0
    \/ \E i \in 1..Len(calls) : calls[i].elem = e

\* C21: an element is classified as PDF exactly when one of its signals
\* holds '.pdf' in some case, and a scan takes only such elements; the
\* element whose only signal is the tooltip Invoice_2024.pdf is classified
\* as PDF and every call and button for it carries that file name.
C21_ClassifiedIffSignal ==
    \A e \in Elems :
        /\ IsPdfAttachment(dom[e].sig) <=> AnySignalHasPdf(dom[e].sig)
        /\ TakenAsPdf(e) => AnySignalHasPdf(dom[e].sig)
        /\ dom[e].sig = InvoiceTooltip
            => /\ IsPdfAttachment(dom[e].sig)
               /\ GetAttachmentFileName(dom[e].sig) = <<"Invoice_2024", ".pdf">>
               /\ \A i \in 1..Len(calls) :
                    calls[i].elem = e => calls[i].fileName = <<"Invoice_2024", ".pdf">>
               /\ \A k \in 1..Len(nodes[e]) :
                    nodes[e][k].type = "button"
                        => nodes[e][k].fileName = <<"Invoice_2024", ".pdf">>

\* the tooltip-only element has its button, named after the tooltip
C21_Witness ==
    \E e \in Elems :
        /\ dom[e].sig = InvoiceTooltip
        /\ \E k \in 1..Len(nodes[e]) :
            /\ nodes[e][k].type = "button"
            /\ nodes[e][k].fileName = <<"Invoice_2024", ".pdf">>

(***************************************************************************)
(* Transfer records                                                        *)
(***************************************************************************)
\* handler h completes its chrome.storage.local.set of the history
HistoryWrittenBy(h) ==
    /\ handlers[h].pc = "write"
    /\ handlers[h].op \in {"UPLOAD_PDF", "MARK_TRANSFERRED", "REMOVE_TRANSFERRED"}
    /\ handlers'[h].pc = "reply"

\* the records a list holds for an emailId
RecordsFor(list, e) == {r \in Range(list) : r.emailId = e}

\* C22 (as stated): the records of an emailId change only in the write of a
\* handler for that emailId - they appear only with a MARK_TRANSFERRED or an
\* UPLOAD_PDF that the backend accepted, and go only with a
\* REMOVE_TRANSFERRED or an upsert for it.
C22_RecordLifecycle ==
    [][\A e \in EmailIds :
        RecordsFor(transferredEmails', e) # RecordsFor(transferredEmails, e)
            => \E h \in HandlerIds :
                /\ HistoryWrittenBy(h)
                /\ handlers[h].emailId = e
                /\ handlers[h].op = "UPLOAD_PDF" => handlers[h].outcome = "ok"
                /\ RecordsFor(transferredEmails, e) = {}
                    => handlers[h].op # "REMOVE_TRANSFERRED"]_vars

\* C22 (corrected): the stored history changes only in the write of an
\* UPLOAD_PDF that the backend accepted, a MARK_TRANSFERRED or a
\* REMOVE_TRANSFERRED; after it the writer's emailId has the writer's record
\* (none after a removal) and every other emailId has the records it had
\* when the writer read the history - a record stored since that read is gone
\* and one removed since is back.
C22_WritersOnly ==
    [][/\ transferredEmails' # transferredEmails
            => \E h \in HandlerIds : HistoryWrittenBy(h)
       /\ \A h \in HandlerIds : HistoryWrittenBy(h)
            => /\ handlers[h].op = "UPLOAD_PDF" => handlers[h].outcome = "ok"
               /\ \A e \in EmailIds :
                    RecordsFor(transferredEmails', e) =
                        IF e # handlers[h].emailId THEN RecordsFor(handlers[h].snap, e)
                        ELSE IF handlers[h].op = "REMOVE_TRANSFERRED" THEN {}
                        ELSE {TransferredEmail(e, handlers[h].fileName)}]_vars

\* a write has dropped the record another handler stored after the writer's
\* read, and a scan has run in the same session
C22_Witness ==
    /\ \E h \in HandlerIds : handlers[h].pc = "reply" /\ handlers[h].upsert = "lost"
    /\ Len(transferredEmails) = 1

(***************************************************************************)
(* Cache and failed listings                                               *)
(***************************************************************************)
\* C23 (as stated): a sync whose file listing failed leaves in the cache
\* every name that was cached before it.
C23_FailedListingKeepsCache ==
    [][\A h \in HandlerIds :
        (SyncWrites(h) /\ handlers[h].outcome = "unlisted")
            => Range(boringTaxFiles) \subseteq Range(boringTaxFiles')]_vars

(***************************************************************************)
(* Independence of the two timers                                          *)
(***************************************************************************)
\* the step is an observer callback that set a timer
BatchSchedules ==
    /\ budget' = budget - 1
    /\ loc' = loc
    /\ nextTimer' # nextTimer

\* C24: at most one timer per class is pending, and an observer callback
\* that sets the timer of one class leaves the other class's handle and
\* pending timer - its identity and the time it has left - as they were.
C24_IndependentTimers ==
    /\ [](\A c \in Classes : Cardinality(Pending(c)) <= 1)
    /\ [][BatchSchedules
            => \E c \in Classes :
                /\ Handle(c)' # Handle(c)
                /\ \A d \in Classes \ {c} :
                    /\ Handle(d)' = Handle(d)
                    /\ {t \in timers' : t.class = d} = Pending(d)]_vars

\* an inbox batch came 100 ms after an email batch (the view changed in
\* between): both timers are pending, the email timer with its 200 ms left
C24_Witness ==
    /\ \E t \in Pending("email") : t.left = EmailDelay - 100
    /\ \E t \in Pending("inbox") : t.left = InboxDelay

(***************************************************************************)
(* Identity of the injected nodes                                          *)
(***************************************************************************)
\* C25 (as stated): every injected node - button, badge inserted by the
\* render, badge that replaced a button - carries a file name and an email
\* id in its data attributes.
C25_NodesCarryIdentity ==
    \A e \in Elems : \A k \in 1..Len(nodes[e]) :
        /\ nodes[e][k].fileName # <<>>
        /\ nodes[e][k].emailId # ""

(***************************************************************************)
(* Email identity                                                          *)
(***************************************************************************)
\* element e is a PDF attachment marked grm-processed that has no status
\* call running, no button or badge in or under it, and no button of its
\* file name elsewhere
Abandoned(e) ==
    /\ e \in processed
    /\ IsPdfAttachment(dom[e].sig)
    /\ ~TakenAsPdf(e)
    /\ ~ContainsAffordance(e)
    /\ ~ButtonExistsFor(GetAttachmentFileName(dom[e].sig))

\* C26 (as stated): extractEmailId always yields an identity, so no scan
\* marks a PDF attachment processed and leaves it without an affordance.
C26_IdentityAvailable == \A e \in Elems : ~Abandoned(e)

(***************************************************************************)
(* File names                                                              *)
(***************************************************************************)
\* the file names a scan gave element e: of its calls and of its buttons
NamesGiven(e) ==
    {calls[i].fileName : i \in {j \in 1..Len(calls) : calls[j].elem = e}}
        \cup {nodes[e][k].fileName :
                k \in {j \in 1..Len(nodes[e]) : nodes[e][j].type = "button"}}

\* the first signal, in the order of isPdfAttachment, that holds '.pdf' in
\* some case (0: none)
FirstPdfSignal(sig) ==
    LET hits == {i \in 1..5 : IncludesPdf(ToLowerCase(SignalsOf(sig)[i]))}
    IN  IF hits = {} THEN 0 ELSE CHOOSE i \in hits : \A j \in hits : i <= j

\* the name a signal yields: the signal itself, trimmed, or the file name
\* matched inside it
NamedBy(s) == {Trim(s), PdfMatch(s)}

\* C27 (as stated): the file name of an element comes from the first signal,
\* in the order of the classification, that names a PDF, and it is the
\* placeholder document.pdf only when the element has no signal at all.
C27_SameCascade ==
    \A e \in Elems : \A n \in NamesGiven(e) :
        /\ n = Placeholder => \A i \in 1..5 : SignalsOf(dom[e].sig)[i] = <<>>
        /\ FirstPdfSignal(dom[e].sig) # 0
            => n \in NamedBy(SignalsOf(dom[e].sig)[FirstPdfSignal(dom[e].sig)])

\* C28 (as stated): an element classified as PDF is named after one of its
\* signals, so two PDF attachments of one message that display different
\* names are never both given the file name document.pdf.
C28_DistinctNamesKept ==
    \A e1, e2 \in Elems :
        (/\ e1 # e2
         /\ IsPdfAttachment(dom[e1].sig) /\ IsPdfAttachment(dom[e2].sig)
         /\ dom[e1].sig # dom[e2].sig)
            => ~(Placeholder \in NamesGiven(e1) /\ Placeholder \in NamesGiven(e2))

(***************************************************************************)
(* Responses                                                               *)
(***************************************************************************)
\* C29 (as stated): every message the service worker receives gets exactly
\* one response: a call in flight always has a step ahead of it, it ends
\* only after it answered and the answer is never replaced; an unknown type
\* and a handler that threw are answered {success:false, error}.
C29_OneResponse ==
    /\ [](\A h \in HandlerIds :
            /\ handlers[h].pc \notin {"free", "reply"} => ENABLED MessageStep(h)
            /\ handlers[h].pc = "reply" /\ handlers[h].op = UnknownType
                => ~handlers[h].success /\ handlers[h].outcome = "unknown"
            /\ handlers[h].pc = "reply" /\ handlers[h].outcome = "caught"
                => ~handlers[h].success)
    /\ [][\A h \in HandlerIds :
            /\ handlers[h].pc # "free" /\ handlers'[h].pc = "free"
                => handlers[h].pc = "reply"
            /\ handlers[h].pc = "reply"
                => handlers'[h] \in {handlers[h], NoHandler}]_vars

(***************************************************************************)
(* Periodic scan                                                           *)
(***************************************************************************)
\* the positions an element can have in a document
ElementIds == UNION {DOMAIN d : d \in Documents}

Unprocessed(e) ==
    /\ e \in DOMAIN dom
    /\ IsInOpenedEmail(loc)
    /\ IsPdfAttachment(dom[e].sig)
    /\ e \notin processed

\* C30 (as stated): while the page stays in the opened-message view, a PDF
\* attachment element that is not yet processed is eventually marked and
\* given a button or a badge, with no mutation reported, by the interval scan.
C30_PeriodicScanProcesses ==
    \A e \in ElementIds :
        Unprocessed(e) ~> (e \in processed /\ Len(nodes[e]) > 0)

(***************************************************************************)
(* URL poll                                                                *)
(***************************************************************************)
Hashes == {l.hash : l \in Locations}

\* the scans scheduled for location u that have not run yet
UrlScans(u) == {t \in timers : t.class = "url" /\ t.url = u}

\* this step is a run of the poll
PollRuns == (\E t \in timers : t.class = "poll" /\ t.left = 0) /\ PollTimer \in timers'

\* the poll's part of C31: a run of the poll that finds another location
\* than the recorded one records it and schedules its scans 500 ms and
\* 1500 ms later; any other step schedules no such scan
PollSchedules ==
    [][LET new == {t \in timers' : t.class = "url" /\ t.id \notin {x.id : x \in timers}}
       IN  IF PollRuns /\ loc.hash # lastUrl
           THEN /\ lastUrl' = loc.hash
                /\ {<<t.left, t.url>> : t \in new}
                        = {<<SettleDelay, loc.hash>>, <<SecondDelay, loc.hash>>}
           ELSE new = {} /\ lastUrl' = lastUrl]_vars

\* C31 (as stated): every change of the location is eventually followed by
\* scans scheduled by the poll, and the poll schedules scans exactly when it
\* finds another location than the one it recorded.
C31_UrlChangeRescans ==
    /\ PollSchedules
    /\ (loc.hash # lastUrl) ~> (\E u \in Hashes : UrlScans(u) # {})

(***************************************************************************)
(* One upload per button                                                   *)
(***************************************************************************)
\* the UPLOAD_PDF calls sent from a button of element e and not yet answered
\* to it
UploadsInFlight(e) ==
    {h \in HandlerIds : handlers[h].op = "UPLOAD_PDF" /\ handlers[h].origin = e}

\* the buttons of element e that wait for an UploadResponse
WaitingButtons(e) == {k \in 1..Len(nodes[e]) : nodes[e][k].up = "sent"}

\* C32: a button has at most one upload in flight: a download or an upload
\* message is under way only for a button that carries the loading marker,
\* every UPLOAD_PDF call in flight belongs to another waiting button, and a
\* download starts only on a button that was not loading.
C32_OneUploadPerButton ==
    /\ [](\A e \in Elems :
            /\ \A k \in 1..Len(nodes[e]) :
                    nodes[e][k].up # "idle"
                        => nodes[e][k].loading /\ nodes[e][k].type = "button"
            /\ Cardinality(UploadsInFlight(e)) <= Cardinality(WaitingButtons(e)))
    /\ [][\A e \in Elems : \A k \in 1..Len(nodes[e]) :
            (nodes'[e][k].up = "downloading" /\ nodes[e][k].up # "downloading")
                => ~nodes[e][k].loading]_vars

\* an upload is in flight for a button and the user could still click it
C32_Witness ==
    \E e \in Elems : \E k \in WaitingButtons(e) :
        /\ nodes[e][k].loading
        /\ UploadsInFlight(e) # {}
        /\ budget > 0

\* C33 (as stated): the 3-second reset timer of a failed upload never
\* changes a button that is uploading again: a button that carries the
\* loading marker shows the in-progress state, and a badge stays as it is.
C33_RevertSparesUpload ==
    \A e \in Elems : \A k \in 1..Len(nodes[e]) :
        /\ nodes[e][k].loading => nodes[e][k].label = "sending"
        /\ nodes[e][k].type = "badge" => nodes[e][k].label = "done"

(***************************************************************************)
(* Badge at scan time                                                      *)
(***************************************************************************)
\* C34 (as stated): a scan renders a badge only for an attachment whose
\* normalized file name is the name of a transfer record or of the cached
\* remote list; any other PDF gets the upload button, whatever is stored
\* for other attachments of the same email.
C34_NoFalseAlreadySent ==
    [][\A i \in 1..Len(calls) :
        (Renders(i) /\ Inserted(i).type = "badge")
            => (NameInHistory(calls[i].fileName) \/ NameInCache(calls[i].fileName))]_vars

(***************************************************************************)
(* Affordance state machine                                                *)
(***************************************************************************)
\* this step is a scan or changes what is stored
ScanOrStoreStep ==
    \/ scanCount' # scanCount
    \/ storeVars' # storeVars
    \/ processed' # processed

\* this step answers a successful upload sent from element e
SuccessAnswered(e) ==
    \E h \in HandlerIds :
        /\ handlers[h].op = "UPLOAD_PDF" /\ handlers[h].origin = e
        /\ handlers[h].pc = "reply" /\ handlers[h].success
        /\ handlers'[h] = NoHandler

RemovalNext ==
    \/ \E k \in Keys \ {""}, o \in Keys \ {""} : SaveSettings(k, o)
    \/ \E e \in EmailIds, f \in FileNames : Receive("MARK_TRANSFERRED", e, f)
    \/ \E e \in EmailIds : Receive("REMOVE_TRANSFERRED", e, <<>>)
    \/ \E h \in HandlerIds, ok \in BOOLEAN : ReadHistory(h, ok)
    \/ \E h \in HandlerIds : WriteHistory(h)
    \/ \E h \in HandlerIds : ReplyOutside(h)

SpecRemoval == Init /\ [][RemovalNext]_vars

\* handler h completes the write of a REMOVE_TRANSFERRED
RemovalWrittenBy(h) == HistoryWrittenBy(h) /\ handlers[h].op = "REMOVE_TRANSFERRED"

\* C36 (as stated): the write of a REMOVE_TRANSFERRED for E leaves the
\* stored history without the records of E and with every other record in
\* its place, leaves settings and cache alone and reports success; with no
\* record of E stored nothing changes.
C36_RemoveFrame ==
    [][\A h \in HandlerIds : RemovalWrittenBy(h) =>
            /\ transferredEmails' = OthersOf(transferredEmails, handlers[h].emailId)
            /\ UNCHANGED <<apiKey, orgId, boringTaxFiles, boringTaxLastSync>>
            /\ handlers'[h].success]_vars

\* C36 (corrected): the write of a REMOVE_TRANSFERRED for E stores the list
\* the handler read, without the records of E and in the order read; settings
\* and cache are unchanged and the answer is success. When the stored list
\* is still the one read, the records of other emailIds are those stored
\* before, and nothing changes if E had no record.
C36_RemoveFrameOnRead ==
    [][\A h \in HandlerIds : RemovalWrittenBy(h) =>
            /\ transferredEmails' = OthersOf(handlers[h].snap, handlers[h].emailId)
            /\ UNCHANGED <<apiKey, orgId, boringTaxFiles, boringTaxLastSync>>
            /\ handlers'[h].success
            /\ handlers[h].snap = transferredEmails
                => /\ OthersOf(transferredEmails', handlers[h].emailId)
                        = OthersOf(transferredEmails, handlers[h].emailId)
                   /\ RecordsOf(transferredEmails, handlers[h].emailId) = {}
                        => transferredEmails' = transferredEmails]_vars

\* a removal has answered success and a record of another emailId is stored
C36_Witness ==
    \E h \in HandlerIds :
        /\ handlers[h].op = "REMOVE_TRANSFERRED"
        /\ handlers[h].pc = "reply"
        /\ handlers[h].success /\ handlers[h].wrote
        /\ transferredEmails # <<>>

-----------------------------------------------------------------------------
\* Inbox indicators (scanInboxForTransferredEmails, createInboxIndicator)

\* a thread list showing two attachment chips
InboxList == << Element(TooltipA, 0, TRUE), Element(TooltipB, 0, TRUE) >>

InboxHistories ==
    { <<>>,
      << TransferredEmail("E1", <<"a", ".pdf">>) >>,
      << TransferredEmail("E1", <<"a", ".pdf">>), TransferredEmail("E2", <<"b", ".pdf">>) >> }

\* the content script in the thread list, with some transfers on record
InboxInit ==
    /\ apiKey = ""
    /\ orgId = ""
    /\ transferredEmails \in InboxHistories
    /\ boringTaxFiles = <<>>
    /\ boringTaxLastSync = 0
    /\ handlers = [h \in HandlerIds |-> NoHandler]
    /\ uploadedFiles = {}
    /\ budget = MaxScans
    /\ InitPage([hash |-> <<"#inbox">>, detail |-> FALSE, msg |-> "none"], InboxList)
    /\ InitObserver

\* inbox scans started at any moment, also while earlier ones wait for answers
InboxNext ==
    \/ ScanInboxForTransferredEmails
    \/ InboxStep

SpecInbox == InboxInit /\ [][InboxNext]_vars

\* the chip whose answer inbox scan j is about to act on
AnswerFor(j) == inboxScans[j].chips[inboxScans[j].pos]

\* the step belongs to a scan whose check answered true, and nothing but the
\* indicators next to that scan's chip changes
InsertsOnTrue ==
    \E j \in 1..Len(inboxScans) :
        /\ inboxScans[j].pc = "answer"
        /\ inboxScans[j].isInBoringTax = "true"
        /\ \A e \in Elems : e # AnswerFor(j).elem => indicators'[e] = indicators[e]

\* C37: every attachment chip has at most one indicator next to it and no
\* indicator has an indicator of its own, whatever scans ran or overlapped;
\* the indicators change only in the step of a scan whose file-name check
\* answered isInBoringTax = true, so a failed or negative check inserts nothing
C37_OneIndicatorPerChip ==
    /\ [](\A e \in ElementIds :
            e \in Elems =>
                /\ Len(indicators[e]) <= 1
                /\ \A i \in 1..Len(indicators[e]) : indicators[e][i].own = 0)
    /\ [][indicators' # indicators => InsertsOnTrue]_vars

\* an indicator was inserted, a later inbox scan has taken it as a candidate
\* (it carries the processed class), and a scan is still waiting for an answer
C37_Witness ==
    \E e \in Elems :
        /\ Len(indicators[e]) = 1
        /\ Chip(e, 1) \in inboxProcessed
        /\ Len(inboxScans) >= 1

(***************************************************************************)
(* content script: sendMessage (gmail_content.ts 245-271), the promise     *)
(* around chrome.runtime.sendMessage. A text is a sequence of parts, so     *)
(* that includes() is computed on it.                                      *)
(***************************************************************************)
MaxSends == 2

\* s.includes(part)
Includes(s, part) == \E i \in 1..Len(s) : s[i] = part

\* 'Extension wurde neu geladen. Bitte die Seite aktualisieren (F5).'
ReloadError ==
    <<"Extension wurde ", "neu geladen", ". Bitte die Seite ", "aktualisieren", " (F5).">>

UnknownError == <<"Unbekannter Fehler">>

\* chrome.runtime.lastError.message when the callback runs: absent, or one of
\* the transport's texts
ErrorTexts ==
    { <<>>,
      <<"Extension context invalidated", ".">>,
      <<"Could not establish connection. ", "Receiving end does not exist", ".">>,
      <<"The message port closed before a response was received.">> }

\* chrome.runtime.lastError when the callback runs
LastErrors ==
    {[set |-> FALSE, message |-> <<>>]}
        \cup {[set |-> TRUE, message |-> m] : m \in ErrorTexts}

\* what the service worker answered
Responses == {"undefined", "success", "failure"}

Reject(text) == [how |-> "reject", value |-> text]
Resolve(response) == [how |-> "resolve", value |-> response]

\* no text is taken as an invalidated context
NeverInvalidated(errorMsg) == FALSE

\* errorMsg.includes('Extension context invalidated') ||
\* errorMsg.includes('Receiving end does not exist')
ContextInvalidated(errorMsg) ==
    \/ Includes(errorMsg, "Extension context invalidated")
    \/ Includes(errorMsg, "Receiving end does not exist")

\* the callback of chrome.runtime.sendMessage
SendCallback(lastError, response) ==
    IF lastError.set
    THEN LET errorMsg == IF lastError.message # <<>> THEN lastError.message
                         ELSE UnknownError
         IN  IF ContextInvalidated(errorMsg) THEN Reject(ReloadError)
             ELSE Reject(errorMsg)
    ELSE Resolve(response)

\* one sendMessage promise: what the call met, and the resolve / reject calls
\* made so far
Send(runtimeId, threw, pc, settled) ==
    [runtimeId |-> runtimeId, threw |-> threw, pc |-> pc,
     lastError |-> [set |-> FALSE, message |-> <<>>], response |-> "undefined",
     settled |-> settled]

\* sendMessage(message): the executor, up to its return
SendMessage(runtimeId, throws) ==
    /\ Len(sends) < MaxSends
    /\ sends' = Append(sends,
            IF ~runtimeId THEN Send(FALSE, FALSE, "done", <<Reject(ReloadError)>>)
            ELSE IF throws THEN Send(TRUE, TRUE, "done", <<Reject(ReloadError)>>)
            ELSE Send(TRUE, FALSE, "sent", <<>>))
    /\ UNCHANGED <<storeVars, uploadedFiles, inboxVars, handlers, budget, pageVars, timerVars>>

\* chrome runs the callback of the i-th call
SendAnswered(i, lastError, response) ==
    /\ sends[i].pc = "sent"
    /\ sends' = [sends EXCEPT ![i] =
            [@ EXCEPT !.pc = "done", !.lastError = lastError, !.response = response,
                      !.settled = Append(@, SendCallback(lastError, response))]]
    /\ UNCHANGED <<storeVars, uploadedFiles, inboxVars, handlers, budget, pageVars, timerVars>>

SendInit == InitStore /\ budget = 0 /\ NoPage /\ InitObserver

SendNext ==
    \/ \E runtimeId \in BOOLEAN, throws \in BOOLEAN : SendMessage(runtimeId, throws)
    \/ \E i \in 1..Len(sends), lastError \in LastErrors, response \in Responses :
            SendAnswered(i, lastError, response)

SpecSend == SendInit /\ [][SendNext]_vars

\* handleUpload's catch: errorMessage.includes('neu geladen') ||
\* errorMessage.includes('aktualisieren')
IsReloadMessage(errorMessage) ==
    Includes(errorMessage, "neu geladen") \/ Includes(errorMessage, "aktualisieren")

-----------------------------------------------------------------------------
\* sendMessage on the page

\* the cases the call counts as an invalidated context
Invalidation(s) ==
    \/ ~s.runtimeId
    \/ s.threw
    \/ /\ s.lastError.set
       /\ \/ Includes(s.lastError.message, "Extension context invalidated")
          \/ Includes(s.lastError.message, "Receiving end does not exist")

\* a call settles once, when it is done, and not before
SettlesOnce(s) ==
    /\ Len(s.settled) <= 1
    /\ (s.pc = "done") <=> (Len(s.settled) = 1)

\* the reload-the-page rejection, which handleUpload takes as such, comes
\* in the cases of Invalidation and in no other
ReloadOnlyOnInvalidation(s) ==
    s.pc = "done" =>
        /\ (s.settled[1] = Reject(ReloadError)) <=> Invalidation(s)
        /\ (s.settled[1].how = "reject" /\ IsReloadMessage(s.settled[1].value))
                <=> Invalidation(s)
        /\ (s.runtimeId /\ ~s.threw /\ ~s.lastError.set)
                => s.settled[1] = Resolve(s.response)

\* C38 (as stated): a call settles exactly once; it rejects with the
\* reload-the-page error when the runtime id is missing, sending throws or the
\* transport error's text contains one of the two phrases, and in no other
\* case; any other transport error is rejected with its own text
C38_SendMessageReports ==
    \A i \in 1..Len(sends) :
        /\ SettlesOnce(sends[i])
        /\ ReloadOnlyOnInvalidation(sends[i])
        /\ (sends[i].pc = "done" /\ sends[i].lastError.set /\ ~Invalidation(sends[i]))
                => sends[i].settled[1] = Reject(sends[i].lastError.message)

\* C38 (amended): the same, but a transport error that carries no text is
\* rejected with 'Unbekannter Fehler'
C38_SendMessageReportsOrUnknown ==
    \A i \in 1..Len(sends) :
        /\ SettlesOnce(sends[i])
        /\ ReloadOnlyOnInvalidation(sends[i])
        /\ (sends[i].pc = "done" /\ sends[i].lastError.set /\ ~Invalidation(sends[i]))
                => sends[i].settled[1] =
                        Reject(IF sends[i].lastError.message = <<>> THEN UnknownError
                               ELSE sends[i].lastError.message)

\* one call was rejected for a lost receiving end, another with the
\* transport's own text
C38_Witness ==
    \E i, j \in 1..Len(sends) :
        /\ sends[i].pc = "done" /\ sends[i].lastError.set
        /\ Includes(sends[i].lastError.message, "Receiving end does not exist")
        /\ sends[j].pc = "done" /\ sends[j].lastError.set
        /\ ~Invalidation(sends[j])
        /\ sends[j].lastError.message # <<>>


=============================================================================
